---- MODULE Spec2Model ----
(***************************************************************************)
(* A model of mb_appearance: the profiles.dat record codec of              *)
(* appearance/service.py (list, delete, generate) and the face code codec  *)
(* of appearance/face_code.py.                                             *)
(*                                                                         *)
(* Bytes are naturals 0..255, a bytes object is a sequence of bytes, a     *)
(* Python str is a sequence of one-character strings (face codes) or of    *)
(* code points (character names decoded from the file).                    *)
(***************************************************************************)
EXTENDS Integers, Sequences, FiniteSets, Bags, TLC

VARIABLES
    file,   \* the profiles.dat file on disk: [exists, data]
    resources, \* the installed resource files: [header_file, common_char_file]
    backup_dir, \* the backup directory: file name -> file
    last,   \* the last roster operation: its arguments, the file before it, what it returned
    fc,     \* the last face code operation: its input and what it returned
    sessions, \* SessionStorage._sessions: session id -> SessionData
    now,    \* datetime.utcnow(), in hours
    sweep_at, \* the time the cleanup task wakes up at the earliest
    inflight, \* upload requests suspended in "await file.read()", a bag
    req,    \* the last HTTP request served: what it was and its status code
    taken   \* session id -> every backup added to the session, in order (history)

apiVars == <<sessions, now, sweep_at, inflight, req, taken>>

vars == <<file, resources, backup_dir, last, fc, sessions, now, sweep_at, inflight, req, taken>>

-----------------------------------------------------------------------------
(* Bounds of the model.                                                    *)

\* most records in a roster the initial states hold
MaxRecords == 3
\* largest value of a header count field in the initial states
MaxCount == 3
\* largest n passed to generate_n_random_characters in Spec
MaxGen == 2
\* largest n passed to generate_n_random_characters in SpecGen
MaxN == 27
\* seeds of the random generator: 0..MaxSeed
MaxSeed == 1
\* longest morph list passed to generate_face_code
MaxMorphs == 45
\* the component values passed to generate_face_code start at entries
\* 0..MaxShift of the value pool
MaxShift == 10

\* the most backups taken in one session
MaxTaken == 2

\* the most uploads waiting for their content at once
MaxInflight == 2

\* the most sessions created
MaxSessions == 2

\* the hours the clock runs
MaxTime == 3

-----------------------------------------------------------------------------
(* Program constants (appearance/consts.py).                               *)

HEADER_OFFSETS == [CHAR_AMOUNT1 |-> 4, CHAR_AMOUNT2 |-> 8]

CHAR_OFFSETS ==
    [NAME_LENGTH |-> 0, NAME |-> 4, SEX |-> 5, BANNER |-> 9, SKIN |-> 14,
     AGE |-> 15, HAIRSTYLE |-> 17, HAIR_COLOR |-> 18, APPEARANCE |-> 21]

APPEARANCE_BYTES_AMOUNT == 11

MIN_BYTES_AMOUNT_FOR_CHAR == 89

\* the literal 12 of service.py: records start after the 12-byte header
HEADER_SIZE == 12

\* len(string.ascii_lowercase)
ALPHABET_SIZE == 26

-----------------------------------------------------------------------------
(* Python primitives.                                                      *)

Min(a, b) == IF a < b THEN a ELSE b
Max(a, b) == IF a > b THEN a ELSE b

\* s[a:b] on bytes or str, for a, b >= 0: clamped to the sequence, never raises
Slice(s, a, b) ==
    LET lo == Min(Max(a, 0), Len(s))
        hi == Min(Max(b, 0), Len(s))
    IN  IF lo >= hi THEN <<>> ELSE SubSeq(s, lo + 1, hi)

\* s[a:]
SliceFrom(s, a) == Slice(s, a, Len(s))

\* s[i] for i >= 0, defined only when it does not raise IndexError
At(s, i) == s[i + 1]

\* int.from_bytes(b, 'little') for len(b) <= 4
RECURSIVE IntFromBytesLittle(_)
IntFromBytesLittle(b) ==
    IF Len(b) = 0 THEN 0 ELSE b[1] + 256 * IntFromBytesLittle(Tail(b))

\* n.to_bytes(4, 'little'), 0 <= n < 2^31
ToBytesLittle4(n) ==
    <<n % 256, (n \div 256) % 256, (n \div 65536) % 256, (n \div 16777216) % 256>>

\* bytes.decode('utf-8', errors='ignore') on bytes none of which starts a valid
\* multi-byte sequence: every byte >= 0x80 is dropped, the others are code points
IsAscii(byte) == byte < 128
DecodeIgnore(b) == SelectSeq(b, IsAscii)

\* str.rstrip('\x00')
RStripNul(s) ==
    LET kept == {i \in 1..Len(s) : s[i] # 0}
    IN  IF kept = {} THEN <<>>
        ELSE SubSeq(s, 1, CHOOSE i \in kept : \A j \in kept : j <= i)

\* str(n) for n >= 0, as code points
RECURSIVE StrOfInt(_)
StrOfInt(n) ==
    IF n < 10 THEN <<48 + n>> ELSE StrOfInt(n \div 10) \o <<48 + (n % 10)>>

-----------------------------------------------------------------------------
(* appearance/helpers.py.                                                  *)

\* read_profiles(path): the file's bytes; raises FileNotFoundError when absent
read_profiles(f) == [raised |-> ~f.exists, data |-> IF f.exists THEN f.data ELSE <<>>]

\* write_profiles(path, data)
write_profiles(data) == [exists |-> TRUE, data |-> data]

\* get_header_with_chars_amount(header, n): n written little-endian into both
\* count fields, every other header byte kept
get_header_with_chars_amount(header, n) ==
    Slice(header, 0, HEADER_OFFSETS.CHAR_AMOUNT1) \o ToBytesLittle4(n)
        \o ToBytesLittle4(n) \o SliceFrom(header, HEADER_OFFSETS.CHAR_AMOUNT2 + 4)

\* The random module: draw number k of a generator seeded with seed, in lo..hi
RandInt(seed, k, lo, hi) == lo + ((seed * 37 + k * 11 + seed * k + 5) % (hi - lo + 1))

\* get_random_byte_for_idx(i): slots 0-6, 8, 9 over a full byte, slot 7 in
\* [0,127], the other slots in [28,31]
get_random_byte_for_idx(i, seed, k) ==
    IF i \in {0, 1, 2, 3, 4, 5, 6, 8, 9} THEN <<RandInt(seed, k, 0, 255)>>
    ELSE IF i = 7 THEN <<RandInt(seed, k, 0, 127)>>
    ELSE <<RandInt(seed, k, 28, 31)>>

\* get_random_sex(): male or female
get_random_sex(seed, k) == <<RandInt(seed, k, 0, 1)>>

\* get_random_skin(): one of the five skin bytes
get_random_skin(seed, k) == <<16 * RandInt(seed, k, 0, 4)>>

-----------------------------------------------------------------------------
(* appearance/service.py: list_characters.                                 *)

\* An optional value (a dictionary key that may be missing, an argument that
\* may be None) is a sequence of length 0 or 1.
None == <<>>
Some(v) == <<v>>

ListCharCountFirstField(profiles_data) == IntFromBytesLittle(Slice(profiles_data, 4, 8))

\* count = count_a if count_a == count_b else max(count_a, count_b)
ListCharCount(profiles_data) ==
    LET char_count1 == IntFromBytesLittle(Slice(profiles_data, 4, 8))
        char_count2 == IntFromBytesLittle(Slice(profiles_data, 8, 12))
    IN  IF char_count1 # char_count2 THEN Max(char_count1, char_count2) ELSE char_count1

CharSizeWithName(name_length) == 4 + name_length + 85

\* char_size = 4 + name_length + (85 - name_length), floored at the minimum
CharSize(name_length) ==
    LET char_size == 4 + name_length + (85 - name_length)
    IN  IF char_size < MIN_BYTES_AMOUNT_FOR_CHAR THEN MIN_BYTES_AMOUNT_FOR_CHAR ELSE char_size

\* skin_map.get(skin_byte, f'Unknown ({skin_byte})'): the label, and the byte it shows
SkinName(skin_byte) ==
    CASE skin_byte = 0 -> [label |-> "White", byte |-> skin_byte]
      [] skin_byte = 16 -> [label |-> "Light", byte |-> skin_byte]
      [] skin_byte = 32 -> [label |-> "Tan", byte |-> skin_byte]
      [] skin_byte = 48 -> [label |-> "Dark", byte |-> skin_byte]
      [] skin_byte = 64 -> [label |-> "Black", byte |-> skin_byte]
      [] OTHER -> [label |-> "Unknown", byte |-> skin_byte]

\* the banner key: "Current Nation", or the value as 8 hex digits, here the four
\* bytes most significant first
BannerInfo(banner_bytes) ==
    IF Len(banner_bytes) >= 4
    THEN Some([nation |-> (banner_bytes = <<255, 255, 255, 255>>),
               value |-> <<banner_bytes[4], banner_bytes[3], banner_bytes[2], banner_bytes[1]>>])
    ELSE None

\* one iteration's char_info, for a record at current_pos whose sex and skin
\* bytes are inside the buffer
CharInfo(profiles_data, i, current_pos) ==
    LET name_length == At(profiles_data, current_pos)
        name_start == current_pos + 4
        name_end == name_start + name_length
        age_offset == current_pos + CHAR_OFFSETS.AGE
        hair_offset == current_pos + CHAR_OFFSETS.HAIRSTYLE
        hair_color_offset == current_pos + CHAR_OFFSETS.HAIR_COLOR
        banner_offset == current_pos + CHAR_OFFSETS.BANNER
    IN  [index |-> i,
         name |-> RStripNul(DecodeIgnore(Slice(profiles_data, name_start, name_end))),
         sex |-> IF At(profiles_data, current_pos + CHAR_OFFSETS.SEX) = 1
                 THEN "Female" ELSE "Male",
         skin |-> SkinName(At(profiles_data, current_pos + CHAR_OFFSETS.SKIN)),
         age |-> IF age_offset + 1 < Len(profiles_data)
                 THEN Some(IntFromBytesLittle(Slice(profiles_data, age_offset, age_offset + 2)))
                 ELSE None,
         hairstyle |-> IF hair_offset < Len(profiles_data)
                       THEN Some(StrOfInt(At(profiles_data, hair_offset))) ELSE None,
         hair_color |-> IF hair_color_offset < Len(profiles_data)
                        THEN Some(StrOfInt(At(profiles_data, hair_color_offset))) ELSE None,
         banner |-> BannerInfo(Slice(profiles_data, banner_offset, banner_offset + 4))]

\* the loop over range(char_count): stops at the buffer end; reading the sex or
\* the skin byte past the buffer end raises IndexError
RECURSIVE ListLoop(_, _, _, _, _)
ListLoop(profiles_data, char_count, i, current_pos, characters) ==
    IF i >= char_count \/ current_pos >= Len(profiles_data)
    THEN [raised |-> FALSE, characters |-> characters]
    ELSE IF current_pos + CHAR_OFFSETS.SEX >= Len(profiles_data)
            \/ current_pos + CHAR_OFFSETS.SKIN >= Len(profiles_data)
    THEN [raised |-> TRUE, characters |-> characters]
    ELSE ListLoop(profiles_data, char_count, i + 1,
                  current_pos + CharSize(At(profiles_data, current_pos)),
                  Append(characters, CharInfo(profiles_data, i, current_pos)))

\* list_characters(profiles_file_path): any exception is caught and [] returned
list_characters(f) ==
    LET profiles == read_profiles(f)
        walk == ListLoop(profiles.data, ListCharCount(profiles.data), 0, HEADER_SIZE, <<>>)
    IN  IF profiles.raised \/ walk.raised THEN <<>> ELSE walk.characters

-----------------------------------------------------------------------------
(* appearance/service.py: delete_character.                                *)

\* the loop that finds all character positions
RECURSIVE CharPositionsLoop(_, _, _, _, _)
CharPositionsLoop(profiles_data, char_count, i, current_pos, char_positions) ==
    IF i >= char_count \/ current_pos >= Len(profiles_data)
    THEN char_positions
    ELSE LET name_length == At(profiles_data, current_pos)
             char_size == CharSize(name_length)
         IN  CharPositionsLoop(profiles_data, char_count, i + 1, current_pos + char_size,
                 Append(char_positions,
                        [index |-> i, start |-> current_pos, end |-> current_pos + char_size,
                         name_start |-> current_pos + 4,
                         name_end |-> current_pos + 4 + name_length,
                         size |-> char_size]))

\* char_count = int.from_bytes(profiles_data[4:8], 'little')
DeleteCharCount(profiles_data) == IntFromBytesLittle(Slice(profiles_data, 4, 8))

CharPositions(profiles_data) ==
    CharPositionsLoop(profiles_data, DeleteCharCount(profiles_data), 0, HEADER_SIZE, <<>>)

\* the name of a record as delete_character decodes it
PositionName(profiles_data, char_info) ==
    RStripNul(DecodeIgnore(Slice(profiles_data, char_info.name_start, char_info.name_end)))

CharToDeleteNameFirst(profiles_data, char_positions, index, name) ==
    IF name # None
    THEN LET matches == {k \in 1..Len(char_positions) :
                            PositionName(profiles_data, char_positions[k]) = name[1]}
         IN  IF matches = {} THEN None
             ELSE Some(CHOOSE k \in matches : \A j \in matches : k <= j)
    ELSE IF 0 <= index[1] /\ index[1] < Len(char_positions) THEN Some(index[1] + 1) ELSE None

\* the record to delete, as an optional position in char_positions (1-based):
\* the index when one is given, else the first record whose name matches
CharToDelete(profiles_data, char_positions, index, name) ==
    IF index # None
    THEN IF 0 <= index[1] /\ index[1] < Len(char_positions) THEN Some(index[1] + 1) ELSE None
    ELSE LET matches == {k \in 1..Len(char_positions) :
                            PositionName(profiles_data, char_positions[k]) = name[1]}
         IN  IF matches = {} THEN None
             ELSE Some(CHOOSE k \in matches : \A j \in matches : k <= j)

NewCountUnchanged(char_count) == char_count

\* new_count = char_count - 1
NewCount(char_count) == char_count - 1

RemoveSpanToNameEnd(profiles_data, char_to_delete) ==
    Slice(profiles_data, 0, char_to_delete.start)
        \o SliceFrom(profiles_data, char_to_delete.name_end)

\* new_data = profiles_data[:start] + profiles_data[end:]
RemoveSpan(profiles_data, char_to_delete) ==
    Slice(profiles_data, 0, char_to_delete.start) \o SliceFrom(profiles_data, char_to_delete.end)

\* delete_character(profiles_file_path, index, name): what it returns and the
\* file it leaves; any exception is caught and False returned
delete_character(f, index, name) ==
    LET profiles == read_profiles(f)
        profiles_data == profiles.data
        header == Slice(profiles_data, 0, 12)
        char_count == DeleteCharCount(profiles_data)
        char_positions == CharPositions(profiles_data)
        pick == CharToDelete(profiles_data, char_positions, index, name)
        new_data == RemoveSpan(profiles_data, char_positions[pick[1]])
        new_header == get_header_with_chars_amount(header, NewCount(char_count))
    IN  IF index = None /\ name = None THEN [ret |-> FALSE, file |-> f]
        ELSE IF profiles.raised THEN [ret |-> FALSE, file |-> f]
        ELSE IF char_count <= 1 THEN [ret |-> FALSE, file |-> f]
        ELSE IF pick = None THEN [ret |-> FALSE, file |-> f]
        ELSE [ret |-> TRUE, file |-> write_profiles(new_header \o SliceFrom(new_data, 12))]

-----------------------------------------------------------------------------
(* appearance/service.py: generate_n_random_characters.                    *)

\* the random generator is called 13 times for each character: 11 appearance
\* bytes, the sex, the skin
DRAWS_PER_CHAR == APPEARANCE_BYTES_AMOUNT + 2

\* the loop over range(APPEARANCE_BYTES_AMOUNT), from slot i on
RECURSIVE RandomAppearance(_, _, _, _)
RandomAppearance(char_data, i, seed, char_idx) ==
    IF i >= APPEARANCE_BYTES_AMOUNT THEN char_data
    ELSE LET rb == get_random_byte_for_idx(i, seed, char_idx * DRAWS_PER_CHAR + i)
             appearance_offset == CHAR_OFFSETS.APPEARANCE
         IN  RandomAppearance(
                 Slice(char_data, 0, appearance_offset + i) \o rb
                     \o SliceFrom(char_data, appearance_offset + i + 1),
                 i + 1, seed, char_idx)

CharNameLetterOnly(char_idx) == <<97 + (char_idx % ALPHABET_SIZE)>>

\* the numbering strategy: names[letter_idx], followed by str(group_number)
\* when it is not 0; encoded
CharName(char_idx) ==
    LET letter_idx == char_idx % ALPHABET_SIZE
        group_number == char_idx \div ALPHABET_SIZE
    IN  IF group_number = 0 THEN <<97 + letter_idx>>
        ELSE <<97 + letter_idx>> \o StrOfInt(group_number)

WriteNameInserted(char_data, name_bytes) ==
    Slice(char_data, 0, CHAR_OFFSETS.NAME) \o name_bytes
        \o SliceFrom(char_data, CHAR_OFFSETS.NAME)

\* char_data = char_data[0:name_offset] + name_bytes + char_data[name_offset + name_length:]
WriteName(char_data, name_bytes) ==
    LET name_offset == CHAR_OFFSETS.NAME
        name_length == Len(name_bytes)
    IN  Slice(char_data, 0, name_offset) \o name_bytes
            \o SliceFrom(char_data, name_offset + name_length)

WriteSkinShifted(char_data, skin) ==
    Slice(char_data, 0, CHAR_OFFSETS.SKIN + 1) \o skin
        \o SliceFrom(char_data, CHAR_OFFSETS.SKIN + 2)

\* char_data = char_data[0:skin_offset] + get_random_skin() + char_data[skin_offset + 1:]
WriteSkin(char_data, skin) ==
    Slice(char_data, 0, CHAR_OFFSETS.SKIN) \o skin
        \o SliceFrom(char_data, CHAR_OFFSETS.SKIN + 1)

\* char_data = char_data[0:sex_offset] + get_random_sex() + char_data[sex_offset + 1:]
WriteSex(char_data, sex) ==
    Slice(char_data, 0, CHAR_OFFSETS.SEX) \o sex
        \o SliceFrom(char_data, CHAR_OFFSETS.SEX + 1)

\* one iteration of the loop over range(n): the record of character char_idx
GenerateChar(sample, char_idx, seed) ==
    LET fresh == Slice(sample, 0, Len(sample))
        with_appearance == RandomAppearance(fresh, 0, seed, char_idx)
        with_sex == WriteSex(with_appearance,
                        get_random_sex(seed, char_idx * DRAWS_PER_CHAR + APPEARANCE_BYTES_AMOUNT))
        with_skin == WriteSkin(with_sex,
                         get_random_skin(seed, char_idx * DRAWS_PER_CHAR + APPEARANCE_BYTES_AMOUNT + 1))
        name_bytes == CharName(char_idx)
        with_length == <<Len(name_bytes)>> \o SliceFrom(with_skin, 1)
    IN  WriteName(with_length, name_bytes)

\* the loop over range(n), from character char_idx on: what it appends to header
RECURSIVE GenerateLoop(_, _, _, _)
GenerateLoop(sample, n, char_idx, seed) ==
    IF char_idx >= n THEN <<>>
    ELSE GenerateChar(sample, char_idx, seed) \o GenerateLoop(sample, n, char_idx + 1, seed)

\* generate_n_random_characters with the whole common character file as the
\* template, its 12 leading bytes included
generate_n_random_charactersWholeSample(n, header_file, common_char_file, seed) ==
    LET header == get_header_with_chars_amount(header_file, n)
    IN  write_profiles(header \o GenerateLoop(common_char_file, n, 0, seed))

\* generate_n_random_characters(n): the file it writes, from the header file,
\* the common character file and the random generator's seed
generate_n_random_characters(n, header_file, common_char_file, seed) ==
    LET header == get_header_with_chars_amount(header_file, n)
        sample == SliceFrom(common_char_file, 12)
    IN  write_profiles(header \o GenerateLoop(sample, n, 0, seed))

-----------------------------------------------------------------------------
(* Python's int(s, 16) and integers of up to 64 bits.                      *)
(*                                                                         *)
(* An integer x with -2^64 < x < 2^64 is the sequence of its 64 low bits   *)
(* in two's complement, bit j at position j + 1: all that x >> k, x & m    *)
(* and x | y read or write for k + width(m) <= 64.                         *)

HEX_LOWER == <<"0", "1", "2", "3", "4", "5", "6", "7", "8", "9", "a", "b", "c", "d", "e", "f">>
HEX_UPPER == <<"0", "1", "2", "3", "4", "5", "6", "7", "8", "9", "A", "B", "C", "D", "E", "F">>

IsHexDigit(c) == \E v \in 1..16 : HEX_LOWER[v] = c \/ HEX_UPPER[v] = c

HexValue(c) == (CHOOSE v \in 1..16 : HEX_LOWER[v] = c \/ HEX_UPPER[v] = c) - 1

Pow2(k) == 2 ^ k

\* str.strip() of the whitespace int() skips, for strings whose only
\* whitespace character is the space
StripSpaces(s) ==
    LET kept == {i \in 1..Len(s) : s[i] # " "}
    IN  IF kept = {} THEN <<>>
        ELSE SubSeq(s, CHOOSE i \in kept : \A j \in kept : i <= j,
                       CHOOSE i \in kept : \A j \in kept : j <= i)

IsUnderscore(c) == c = "_"
IsDigitChar(c) == ~IsUnderscore(c)

\* int(s, 16): surrounding whitespace, an optional sign, an optional 0x or 0X
\* that one underscore may follow, then hex digits with single underscores
\* between them. ok is FALSE where int raises ValueError; digits are the hex
\* digits most significant first.
ParseInt16(s) ==
    LET t == StripSpaces(s)
        signed == Len(t) > 0 /\ t[1] \in {"+", "-"}
        unsigned == IF signed THEN Tail(t) ELSE t
        prefixed == Len(unsigned) >= 2 /\ unsigned[1] = "0" /\ unsigned[2] \in {"x", "X"}
        after == IF prefixed THEN SubSeq(unsigned, 3, Len(unsigned)) ELSE unsigned
        body == IF prefixed /\ Len(after) > 0 /\ after[1] = "_" THEN Tail(after) ELSE after
    IN  [ok |-> /\ Len(body) > 0
                /\ \A i \in 1..Len(body) : IsHexDigit(body[i]) \/ body[i] = "_"
                /\ body[1] # "_"
                /\ body[Len(body)] # "_"
                /\ \A i \in 1..(Len(body) - 1) : ~(body[i] = "_" /\ body[i + 1] = "_"),
         neg |-> signed /\ t[1] = "-",
         digits |-> SelectSeq(body, IsDigitChar)]

\* bit j of the magnitude written by at most 16 hex digits
MagnitudeBit(digits, j) ==
    IF j \div 4 < Len(digits)
    THEN (HexValue(digits[Len(digits) - (j \div 4)]) \div Pow2(j % 4)) % 2
    ELSE 0

\* the value of a successful int(chunk, 16) on a chunk of at most 16
\* characters: the bits of the magnitude, or of its negation
IntValue(parsed) ==
    LET ones == {j \in 0..63 : MagnitudeBit(parsed.digits, j) = 1}
        low == IF ones = {} THEN 64 ELSE CHOOSE j \in ones : \A k \in ones : j <= k
    IN  [p \in 1..64 |->
            IF parsed.neg /\ (p - 1) > low
            THEN 1 - MagnitudeBit(parsed.digits, p - 1)
            ELSE MagnitudeBit(parsed.digits, p - 1)]

\* (x >> pos) & (2^width - 1)
RECURSIVE ShiftRightAnd(_, _, _)
ShiftRightAnd(x, pos, width) ==
    IF width = 0 THEN 0
    ELSE x[pos + 1] + 2 * ShiftRightAnd(x, pos + 1, width - 1)

\* v & (2^width - 1) for a Python int v of any sign
AndMask(v, width) == v % Pow2(width)

\* v << pos for 0 <= v < 2^width
ShiftLeft(v, width, pos) ==
    [p \in 1..64 |->
        IF pos <= p - 1 /\ p - 1 < pos + width THEN (v \div Pow2(p - 1 - pos)) % 2 ELSE 0]

\* x | y
BitOr(x, y) == [p \in 1..64 |-> IF x[p] = 1 \/ y[p] = 1 THEN 1 ELSE 0]

Zero64 == [p \in 1..64 |-> 0]

Hex16Upper(x) == [d \in 1..16 |-> HEX_UPPER[ShiftRightAnd(x, 4 * (16 - d), 4) + 1]]

\* f"{x:016x}" for 0 <= x < 2^64
Hex16(x) == [d \in 1..16 |-> HEX_LOWER[ShiftRightAnd(x, 4 * (16 - d), 4) + 1]]

-----------------------------------------------------------------------------
(* appearance/face_code.py.                                                *)

\* face_code.startswith('0x')
StartsWith0x(face_code) == Len(face_code) >= 2 /\ face_code[1] = "0" /\ face_code[2] = "x"

\* if face_code.startswith('0x'): face_code = face_code[2:]
RemovePrefix(face_code) ==
    IF StartsWith0x(face_code) THEN SliceFrom(face_code, 2) ELSE face_code

\* validate_face_code(face_code)
validate_face_code(face_code) ==
    LET code == RemovePrefix(face_code)
    IN  IF Len(code) # 64 THEN FALSE ELSE ParseInt16(code).ok

\* the six-bit field k of block 0: (block_0 >> 6k) & 0x3F
ParseScalar(block_0, k) == ShiftRightAnd(block_0, 6 * k, 6)

ParseMorphsOneBlock(block_1, block_2) ==
    [i \in 1..21 |-> ShiftRightAnd(block_1, (i - 1) * 3, 3)]
        \o [i \in 1..21 |-> ShiftRightAnd(block_1, (i - 1) * 3, 3)]
        \o <<ShiftRightAnd(block_1, 63, 1)>>

\* the two loops over range(21), and morph_key_42
ParseMorphs(block_1, block_2) ==
    [i \in 1..21 |-> ShiftRightAnd(block_1, (i - 1) * 3, 3)]
        \o [i \in 1..21 |-> ShiftRightAnd(block_2, (i - 1) * 3, 3)]
        \o <<ShiftRightAnd(block_2, 63, 1)>>

\* the components dictionary of a face code whose four chunks int() accepts
Components(face_code, block_0, block_1, block_2) ==
    [raw_hex |-> face_code,
     hair |-> ParseScalar(block_0, 0),
     beard |-> ParseScalar(block_0, 1),
     skin |-> ParseScalar(block_0, 2),
     hair_texture |-> ParseScalar(block_0, 3),
     hair_color |-> ParseScalar(block_0, 4),
     age |-> ParseScalar(block_0, 5),
     skin_color |-> ParseScalar(block_0, 6),
     morphs |-> ParseMorphs(block_1, block_2),
     hair_index |-> ParseScalar(block_0, 0),
     beard_index |-> ParseScalar(block_0, 1),
     skin_tone |-> ParseScalar(block_0, 2)]

NoComponents == [raw_hex |-> <<>>]

\* chunk0..chunk3 = face_code[0:16], [16:32], [32:48], [48:64], each through
\* int(chunk, 16)
ParsedChunks(code) ==
    <<ParseInt16(Slice(code, 0, 16)), ParseInt16(Slice(code, 16, 32)),
      ParseInt16(Slice(code, 32, 48)), ParseInt16(Slice(code, 48, 64))>>

\* block_0, block_1, block_2 (block_3 is not used)
Blocks(chunks) == <<IntValue(chunks[1]), IntValue(chunks[2]), IntValue(chunks[3])>>

\* from the chunk conversions on: int() may raise on a chunk; else the
\* components are read from the blocks
ParseChunks(code, chunks) ==
    IF ~(chunks[1].ok /\ chunks[2].ok /\ chunks[3].ok /\ chunks[4].ok)
    THEN [raised |-> TRUE, error |-> "literal", components |-> NoComponents]
    ELSE CHOOSE result \in
             {[raised |-> FALSE, error |-> "",
               components |-> Components(code, blocks[1], blocks[2], blocks[3])] :
                  blocks \in {Blocks(chunks)}} : TRUE

\* parse_face_code_components(face_code): raised tells whether it raises
\* ValueError, error which one: "length" and "hex" are the two it raises
\* itself, "literal" is the one int() raises on a chunk. (The chunks and the
\* blocks are bound by set constructors, which evaluate them once.)
parse_face_code_components(face_code) ==
    LET code == RemovePrefix(face_code)
    IN  IF Len(code) # 64
        THEN [raised |-> TRUE, error |-> "length", components |-> NoComponents]
        ELSE IF ~ParseInt16(code).ok
        THEN [raised |-> TRUE, error |-> "hex", components |-> NoComponents]
        ELSE CHOOSE result \in {ParseChunks(code, chunks) : chunks \in {ParsedChunks(code)}} :
                 TRUE

\* components.get(key, 0)
Get(components, key) == IF key \in DOMAIN components THEN components[key] ELSE 0

SCALAR_KEYS == <<"hair", "beard", "skin", "hair_texture", "hair_color", "age", "skin_color">>

\* block_0 |= (components.get(key, 0) & 0x3F) << 6k, for the fields from k on
RECURSIVE Block0(_, _, _)
Block0(components, block_0, k) ==
    IF k >= Len(SCALAR_KEYS) THEN block_0
    ELSE Block0(components,
                BitOr(block_0, ShiftLeft(AndMask(Get(components, SCALAR_KEYS[k + 1]), 6), 6, 6 * k)),
                k + 1)

\* morphs = components.get('morphs', []); while len(morphs) < 43: morphs.append(0)
PaddedMorphs(components) ==
    LET morphs == IF "morphs" \in DOMAIN components THEN components.morphs ELSE <<>>
    IN  IF Len(morphs) < 43 THEN morphs \o [i \in 1..(43 - Len(morphs)) |-> 0] ELSE morphs

\* the loop over range(21): block |= (morphs[first + i] & 0x7) << (i * 3)
RECURSIVE MorphBlock(_, _, _, _)
MorphBlock(morphs, first, block, i) ==
    IF i >= 21 THEN block
    ELSE MorphBlock(morphs, first,
                    BitOr(block, ShiftLeft(AndMask(At(morphs, first + i), 3), 3, i * 3)),
                    i + 1)

Block1(morphs) == MorphBlock(morphs, 0, Zero64, 0)

Block2WithoutMorph42(morphs) == MorphBlock(morphs, 21, Zero64, 0)

\* block 2: morphs 21..41, and morph 42 at bit 63 when the list has it
Block2(morphs) ==
    LET block_2 == MorphBlock(morphs, 21, Zero64, 0)
    IN  IF Len(morphs) > 42
        THEN BitOr(block_2, ShiftLeft(AndMask(At(morphs, 42), 1), 1, 63))
        ELSE block_2

\* generate_face_code(components): the code it returns, and the components
\* dictionary as the call leaves it (a morphs list it holds is padded in place)
generate_face_code(components) ==
    LET morphs == PaddedMorphs(components)
        face_code_hex == Hex16(Block0(components, Zero64, 0)) \o Hex16(Block1(morphs))
                             \o Hex16(Block2(morphs)) \o Hex16(Zero64)
    IN  [code |-> <<"0", "x">> \o face_code_hex,
         components |-> IF "morphs" \in DOMAIN components
                        THEN [components EXCEPT !.morphs = morphs] ELSE components]

\* str.lower() on the characters of a face code
LowerChar(c) ==
    IF \E v \in 1..16 : HEX_UPPER[v] = c
    THEN HEX_LOWER[CHOOSE v \in 1..16 : HEX_UPPER[v] = c]
    ELSE IF c = "X" THEN "x" ELSE c

\* format_face_code without the removal of an existing prefix
format_face_codeKeepsPrefix(face_code, include_prefix) ==
    LET lowered == [i \in 1..Len(face_code) |-> LowerChar(face_code[i])]
    IN  IF include_prefix THEN <<"0", "x">> \o lowered ELSE lowered

\* format_face_code(face_code, include_prefix)
format_face_code(face_code, include_prefix) ==
    LET code == RemovePrefix(face_code)
        lowered == [i \in 1..Len(code) |-> LowerChar(code[i])]
    IN  IF include_prefix THEN <<"0", "x">> \o lowered ELSE lowered

\* the format 02x on a byte: two lowercase hex digits
Hex02(byte) == <<HEX_LOWER[(byte \div 16) + 1], HEX_LOWER[(byte % 16) + 1]>>

\* the format 1x on a byte: at least one lowercase hex digit, two from 16 on
Hex1(byte) == IF byte < 16 THEN <<HEX_LOWER[byte + 1]>> ELSE Hex02(byte)

\* extract_face_code(character_bytes, char_offset): the string it returns, or
\* the IndexError raised by a read past the end of the sliced span
extract_face_code(character_bytes, char_offset) ==
    LET start == char_offset + 14
        face_bytes == Slice(character_bytes, start, start + 32)
        zeros == <<"0", "0", "0", "0", "0", "0", "0", "0">>
    IN  IF Len(face_bytes) <= 17
        THEN [raised |-> TRUE, error |-> "IndexError", code |-> <<>>]
        ELSE [raised |-> FALSE, error |-> "",
              code |-> <<"0", "0", "0", "0", "0", "0", "0">> \o Hex1(face_bytes[3 + 1])
                       \o Hex02(face_bytes[2 + 1]) \o <<"0", "0">>
                           \o Hex02(face_bytes[0 + 1]) \o <<"0", "0">>
                       \o Hex02(face_bytes[14 + 1]) \o Hex02(face_bytes[13 + 1])
                           \o Hex02(face_bytes[12 + 1]) \o Hex02(face_bytes[11 + 1])
                       \o Hex02(face_bytes[10 + 1]) \o Hex02(face_bytes[9 + 1])
                           \o Hex02(face_bytes[8 + 1]) \o Hex02(face_bytes[7 + 1])
                       \o zeros
                       \o <<"0", "0">> \o Hex02(face_bytes[17 + 1])
                           \o Hex02(face_bytes[16 + 1]) \o Hex02(face_bytes[15 + 1])
                       \o zeros
                       \o zeros]

\* apply_face_code after its call of parse_face_code_components: the writes
\* to the copy of the character bytes
ApplyParsed(character_bytes, parsed, char_offset) ==
    LET components == parsed.components
        Raise(error) == [raised |-> TRUE, error |-> error, bytes |-> <<>>]
        InRange(offset) == offset < Len(character_bytes)
    IN  IF parsed.raised THEN Raise("ValueError")
        ELSE IF ~InRange(char_offset + CHAR_OFFSETS["HAIRSTYLE"]) THEN Raise("IndexError")
        ELSE IF ~InRange(char_offset + CHAR_OFFSETS["SKIN"]) THEN Raise("IndexError")
        ELSE IF "AGE_HAIR_COLOR" \notin DOMAIN CHAR_OFFSETS THEN Raise("KeyError")
        ELSE LET age_hair_offset == char_offset + CHAR_OFFSETS["AGE_HAIR_COLOR"]
                 hair_color == components.hair_color % 64
                 age_low == components.age % 4
                 age_high == (components.age \div 4) % 16
             IN  IF ~InRange(age_hair_offset) \/ ~InRange(age_hair_offset + 1)
                 THEN Raise("IndexError")
                 ELSE [raised |-> FALSE, error |-> "",
                       bytes |-> [i \in 1..Len(character_bytes) |->
                           IF i = age_hair_offset + 2 THEN age_high
                           ELSE IF i = age_hair_offset + 1 THEN hair_color + age_low * 64
                           ELSE IF i = char_offset + CHAR_OFFSETS["SKIN"] + 1
                                THEN components.skin % 256
                           ELSE IF i = char_offset + CHAR_OFFSETS["HAIRSTYLE"] + 1
                                THEN components.hair % 256
                           ELSE character_bytes[i]]]

\* apply_face_code(character_bytes, face_code, char_offset): the bytes it
\* returns, or the exception that ends it: the ValueError of the parse, the
\* IndexError of a write past the end of the copy, or the KeyError of a key
\* that CHAR_OFFSETS does not hold
apply_face_code(character_bytes, face_code, char_offset) ==
    CHOOSE result \in {ApplyParsed(character_bytes, parsed, char_offset) :
                          parsed \in {parse_face_code_components(face_code)}} : TRUE

-----------------------------------------------------------------------------
(* The inputs: roster files, resource files, arguments.                    *)

\* n copies of byte b
Fill(b, n) == [i \in 1..n |-> b]

\* a record of the minimum size: the name length byte, three zero bytes, the
\* name, and one byte value up to the end
MkRecord(name_length, name, b) ==
    <<name_length, 0, 0, 0>> \o name
        \o Fill(b, MIN_BYTES_AMOUNT_FOR_CHAR - 4 - Len(name))

\* "A", "Bob", "A" again with other bytes, and a record whose name length byte
\* runs past the record's end
RecordPool ==
    <<MkRecord(1, <<65>>, 0),
      MkRecord(3, <<66, 111, 98>>, 16),
      MkRecord(1, <<65>>, 1),
      MkRecord(90, <<67>>, 255)>>

\* the bodies: k records taken from the pool in order, starting at record s
RECURSIVE Body(_, _)
Body(s, k) ==
    IF k = 0 THEN <<>>
    ELSE RecordPool[((s - 1) % Len(RecordPool)) + 1] \o Body(s + 1, k - 1)

\* bytes cut off the end of a roster: none, one, all but 9 of the last record
Cuts == {0, 1, 80}

Roster(count_a, count_b, s, k, cut) ==
    LET whole == <<10, 0, 0, 0>> \o ToBytesLittle4(count_a) \o ToBytesLittle4(count_b)
                     \o Body(s, k)
    IN  [exists |-> TRUE, data |-> Slice(whole, 0, Len(whole) - cut)]

NoFile == [exists |-> FALSE, data |-> <<>>]

\* the second count field agrees with the first, or holds 0 or the largest count
InitFiles ==
    {NoFile, [exists |-> TRUE, data |-> <<>>], [exists |-> TRUE, data |-> <<10, 0, 0, 0, 2>>]}
    \cup {Roster(c[1], c[2], s, k, cut) :
            c \in {p \in (0..MaxCount) \X (0..MaxCount) : p[2] \in {p[1], 0, MaxCount}},
            s \in {1, 2, 4}, k \in 0..MaxRecords, cut \in Cuts}

\* the (index, name) arguments of delete_character: neither, an index from
\* below the first to beyond the last record, a name ("A", "Bob", "Zed"), or both
DeleteArgs ==
    {<<None, None>>}
    \cup {<<Some(i), None>> : i \in -1..(MaxRecords + 1)}
    \cup {<<None, Some(nm)>> : nm \in {<<65>>, <<66, 111, 98>>, <<90, 101, 100>>}}
    \cup {<<Some(0), Some(<<66, 111, 98>>)>>, <<Some(MaxRecords + 1), Some(<<65>>)>>}

\* header.dat: 12 bytes, whatever its count fields hold
HeaderFiles == {<<10, 0, 0, 0, 0, 0, 0, 0, 0, 0, 0, 0>>, <<7, 1, 2, 3, 5, 0, 0, 0, 9, 0, 0, 0>>}

\* common_char.dat: 12 bytes and the template record, of 89 bytes or more
CommonCharFiles ==
    {Fill(0, 12) \o MkRecord(1, <<97>>, 0),
     Fill(0, 12) \o MkRecord(4, <<116, 101, 115, 116>>, 200),
     Fill(0, 12) \o MkRecord(1, <<97>>, 3) \o <<77>>}

Seeds == 0..MaxSeed

NoLast ==
    [op |-> "none", index |-> None, name |-> None, n |-> 0, seed |-> 0,
     pre |-> NoFile, ret |-> FALSE, characters |-> <<>>]

\* the face code of the documentation (test_example_from_documentation)
DocCode ==
    <<
      "0", "0", "0", "0", "0", "0", "0", "1", "8", "0", "0", "0", "0", "0", "4", "1",
      "3", "6", "d", "b", "7", "9", "b", "6", "d", "b", "6", "d", "b", "6", "f", "b",
      "7", "f", "f", "f", "f", "f", "6", "d", "7", "7", "b", "f", "3", "6", "d", "b",
      "0", "0", "0", "0", "0", "0", "0", "0", "0", "0", "0", "0", "0", "0", "0", "0">>

CodeBases ==
    {DocCode, [i \in 1..64 |-> "f"], [i \in 1..64 |-> HEX_UPPER[((i * 7) % 16) + 1]]}

\* one character of a 64-character code replaced: by a hex digit of either
\* case, or by a character that is no hex digit
CodeChars == {"0", "f", "A", "g", "x", "_", "+", "-", " "}
CodePositions == {1, 2, 15, 16, 17, 33, 64}

CodeBodies ==
    CodeBases
    \cup {[b EXCEPT ![p] = c] : b \in CodeBases, p \in CodePositions, c \in CodeChars}
    \cup {Slice(b, 0, 63) : b \in CodeBases}
    \cup {b \o <<"0">> : b \in CodeBases}
    \cup {<<>>}

CodeInputs == {prefix \o b : prefix \in {<<>>, <<"0", "x">>, <<"0", "X">>}, b \in CodeBodies}

\* field values inside and outside the bit widths, of either sign
ValuePool == <<0, 1, 36, 63, 64, 100, 255, -1, -64, 7, 8>>

PoolValue(k) == ValuePool[(k % Len(ValuePool)) + 1]

\* a components dictionary: the seven scalars and a morph list of the given
\* length, without the dropped keys
ComponentsInput(shift, length, dropped) ==
    LET full == [hair |-> PoolValue(shift), beard |-> PoolValue(shift + 1),
                 skin |-> PoolValue(shift + 2), hair_texture |-> PoolValue(shift + 3),
                 hair_color |-> PoolValue(shift + 4), age |-> PoolValue(shift + 5),
                 skin_color |-> PoolValue(shift + 6),
                 morphs |-> [i \in 1..length |-> PoolValue(shift + 6 + i)]]
    IN  [key \in (DOMAIN full) \ dropped |-> full[key]]

ComponentsInputs ==
    {ComponentsInput(shift, length, dropped) :
        shift \in 0..MaxShift,
        length \in {0, 1, 21, 22, 42, 43, 44, MaxMorphs},
        dropped \in {{}, {"hair"}, {"morphs"}, {"beard", "age", "skin_color"}}}

\* character bytes: a record of the minimum size filled by a pattern, with
\* the byte at record offset 17 replaced, whole, cut short, or after a prefix
FaceRecord(step, byte17) ==
    [i \in 1..MIN_BYTES_AMOUNT_FOR_CHAR |->
        IF i = 17 + 1 THEN byte17 ELSE ((i - 1) * step + 3) % 256]

FaceRecords == {FaceRecord(step, byte17) : step \in {0, 7, 37}, byte17 \in {0, 9, 15, 16, 255}}

CharacterBytesInputs ==
    {[data |-> r, char_offset |-> 0] : r \in FaceRecords}
    \cup {[data |-> Slice(r, 0, n), char_offset |-> 0] :
            r \in {FaceRecord(7, 9)}, n \in {0, 14, 17, 18, 31, 32, 46}}
    \cup {[data |-> Fill(0, HEADER_SIZE) \o r, char_offset |-> HEADER_SIZE] :
            r \in {FaceRecord(7, 9), FaceRecord(37, 16)}}

\* the face codes applied to character bytes
ApplyCodes ==
    {DocCode, <<"0", "x">> \o [i \in 1..64 |-> "f"], [DocCode EXCEPT ![1] = "g"]}

NoFc ==
    [op |-> "none", kind |-> "none", code |-> <<>>, components |-> [morphs |-> <<>>],
     include_prefix |-> FALSE, ok |-> FALSE, error |-> "", parsed |-> NoComponents,
     out |-> <<>>, after |-> [morphs |-> <<>>],
     data |-> <<>>, char_offset |-> 0, bytes |-> <<>>]

FaceInputs ==
    {[NoFc EXCEPT !.kind = "code", !.code = c] : c \in CodeInputs}
    \cup {[NoFc EXCEPT !.kind = "components", !.components = c, !.after = c] :
            c \in ComponentsInputs}
    \cup {[NoFc EXCEPT !.kind = "bytes", !.data = b.data, !.char_offset = b.char_offset,
                       !.code = c] :
            b \in CharacterBytesInputs, c \in ApplyCodes}

\* the input a face code operation is applied to
Input(f) ==
    [NoFc EXCEPT !.kind = f.kind, !.code = f.code, !.components = f.components,
                 !.after = f.components, !.data = f.data, !.char_offset = f.char_offset]

-----------------------------------------------------------------------------
(* service.py: backup, restore_from_backup. The backup directory is a      *)
(* function from the names of its files to the files.                      *)

\* the names of backup files
BackupNames == {"b.dat"}

\* an empty backup directory
NoBackups == [name \in BackupNames |-> [exists |-> FALSE, data |-> <<>>]]

\* backup(backup_to_filename): the backup directory it leaves; raised where
\* read_profiles finds no profiles file
service_backup(f, dir, backup_to_filename) ==
    LET profiles == read_profiles(f)
    IN  IF profiles.raised THEN [raised |-> TRUE, dir |-> dir]
        ELSE [raised |-> FALSE,
              dir |-> [dir EXCEPT ![backup_to_filename] = write_profiles(profiles.data)]]

\* restore_from_backup(restore_dir_path, restore_from_filename): the profiles
\* file it leaves; raised where read_profiles finds no backup file
service_restore_from_backup(f, dir, restore_from_filename) ==
    LET profiles == read_profiles(dir[restore_from_filename])
    IN  IF profiles.raised THEN [raised |-> TRUE, file |-> f]
        ELSE [raised |-> FALSE, file |-> write_profiles(profiles.data)]

-----------------------------------------------------------------------------
(* appearance/api/session.py: SessionData, SessionStorage.                 *)
(*                                                                         *)
(* Times are hours on the clock that datetime.utcnow() reads. A session is *)
(* the record of its fields; temp is the file temp_dir/profiles.dat.       *)

\* SESSION_TIMEOUT = timedelta(hours=2)
SESSION_TIMEOUT == 2

\* asyncio.sleep(3600) between two runs of the cleanup task, in hours
CLEANUP_SLEEP == 1

\* SessionData(profiles_data), constructed at time t
SessionData(profiles_data, t) ==
    [profiles_data |-> profiles_data, created_at |-> t, last_accessed |-> t,
     backups |-> <<>>, temp |-> NoFile]

update_access_time(session, t) == [session EXCEPT !.last_accessed = t]

save_profiles_to_temp(session) ==
    [session EXCEPT !.temp = write_profiles(session.profiles_data)]

load_profiles_from_temp(session, t) ==
    IF session.temp.exists
    THEN update_access_time(
             [session EXCEPT !.profiles_data = read_profiles(session.temp).data], t)
    ELSE session

\* SessionData.add_backup() with the backup put in front of the list
SessionData_add_backupInFront(session, t) ==
    update_access_time(
        [session EXCEPT !.backups = <<session.profiles_data>> \o @], t)

\* SessionData.add_backup(): backup_data is None in every call
SessionData_add_backup(session, t) ==
    update_access_time(
        [session EXCEPT !.backups = Append(@, session.profiles_data)], t)

\* list[index] of a Python list: the position (from 1) it reads, outside
\* 1..Len(list) where it raises IndexError
ListPosition(list, index) == IF index >= 0 THEN index + 1 ELSE Len(list) + index + 1

\* SessionData.restore_from_backup reading the list from its front
SessionData_restore_from_backupFromFront(session, backup_index, t) ==
    LET position == IF backup_index >= 0 THEN Len(session.backups) - backup_index
                    ELSE -backup_index
    IN  IF Len(session.backups) = 0 THEN [ret |-> FALSE, session |-> session]
        ELSE IF position \notin 1..Len(session.backups)
        THEN [ret |-> FALSE, session |-> session]
        ELSE [ret |-> TRUE,
              session |-> update_access_time(
                  [session EXCEPT !.profiles_data = session.backups[position]], t)]

\* SessionData.restore_from_backup(backup_index)
SessionData_restore_from_backup(session, backup_index, t) ==
    LET position == ListPosition(session.backups, backup_index)
    IN  IF Len(session.backups) = 0 THEN [ret |-> FALSE, session |-> session]
        ELSE IF position \notin 1..Len(session.backups)
        THEN [ret |-> FALSE, session |-> session]
        ELSE [ret |-> TRUE,
              session |-> update_access_time(
                  [session EXCEPT !.profiles_data = session.backups[position]], t)]

\* self._sessions without the given ids
Without(ss, ids) == [sid \in (DOMAIN ss) \ ids |-> ss[sid]]

\* SessionStorage.create_session(): session_id is the fresh uuid
create_session(ss, session_id, header_file, t) ==
    [sid \in (DOMAIN ss) \cup {session_id} |->
        IF sid = session_id THEN SessionData(header_file, t) ELSE ss[sid]]

\* SessionStorage.get_session(session_id): found tells whether it returns a
\* session
get_session(ss, session_id, t) ==
    [found |-> session_id \in DOMAIN ss,
     sessions |-> IF session_id \in DOMAIN ss
                  THEN [ss EXCEPT ![session_id] = update_access_time(@, t)]
                  ELSE ss]

\* SessionStorage.delete_session(session_id)
delete_session(ss, session_id) ==
    [ret |-> session_id \in DOMAIN ss, sessions |-> Without(ss, {session_id})]

\* SessionStorage.get_session_ids()
get_session_ids(ss) == DOMAIN ss

\* SessionStorage.update_session_data(session_id, profiles_data)
update_session_data(ss, session_id, profiles_data, t) ==
    IF session_id \in DOMAIN ss
    THEN [ss EXCEPT ![session_id] =
              update_access_time([@ EXCEPT !.profiles_data = profiles_data], t)]
    ELSE ss

\* SessionStorage.add_backup(session_id)
add_backup(ss, session_id, t) ==
    IF session_id \in DOMAIN ss
    THEN [ss EXCEPT ![session_id] = SessionData_add_backup(@, t)]
    ELSE ss

\* SessionStorage.restore_from_backup(session_id, backup_index)
restore_from_backup(ss, session_id, backup_index, t) ==
    IF session_id \in DOMAIN ss
    THEN LET r == SessionData_restore_from_backup(ss[session_id], backup_index, t)
         IN  [ret |-> r.ret, sessions |-> [ss EXCEPT ![session_id] = r.session]]
    ELSE [ret |-> FALSE, sessions |-> ss]

\* the sessions cleanup_expired_sessions finds expired at time t, with <=
\* in place of <
ExpiredSessionsAtCutoff(ss, t) ==
    LET cutoff == t - SESSION_TIMEOUT
    IN  {session_id \in DOMAIN ss : ss[session_id].last_accessed <= cutoff}

\* the sessions cleanup_expired_sessions finds expired at time t
ExpiredSessions(ss, t) ==
    LET cutoff == t - SESSION_TIMEOUT
    IN  {session_id \in DOMAIN ss : ss[session_id].last_accessed < cutoff}

\* SessionStorage.cleanup_expired_sessions()
cleanup_expired_sessions(ss, t) ==
    [count |-> Cardinality(ExpiredSessions(ss, t)),
     sessions |-> Without(ss, ExpiredSessions(ss, t))]

\* validate_profiles_format(data)
validate_profiles_format(data) ==
    IF Len(data) < 12 THEN FALSE
    ELSE LET char_count == IntFromBytesLittle(Slice(data, 4, 8))
         IN  ~(char_count < 0 \/ char_count > 1000)


-----------------------------------------------------------------------------
(* appearance/api: the request handlers of app.py, characters.py, files.py.*)
(*                                                                         *)
(* A handler is an operator from the sessions, its arguments and the time  *)
(* to the sessions it leaves and the status code of its response. A        *)
(* handler runs from its first line to its response without giving up the  *)
(* event loop: SessionStorage's lock is never held across an await, so no  *)
(* "async with self._lock" ever waits. The one await a handler can be      *)
(* suspended in is "await file.read()" of upload_profiles_file.            *)

Response(ss, status) == [sessions |-> ss, status |-> status]

\* a str argument is falsy when it is None or empty
Falsy(optional) == optional = None \/ optional[1] = <<>>

\* s.split('_')[1]: None where it raises IndexError
SecondField(s) ==
    LET separators == {i \in 1..Len(s) : s[i] = "_"}
    IN  IF separators = {} THEN None
        ELSE LET first == CHOOSE i \in separators : \A j \in separators : i <= j
                 later == {i \in separators : i > first}
                 end == IF later = {} THEN Len(s) + 1
                        ELSE CHOOSE i \in later : \A j \in later : i <= j
             IN  Some(SubSeq(s, first + 1, end - 1))

RECURSIVE DecimalValue(_)
DecimalValue(digits) ==
    IF Len(digits) = 0 THEN 0
    ELSE DecimalValue(SubSeq(digits, 1, Len(digits) - 1)) * 10 + HexValue(digits[Len(digits)])

\* int(s) of a string without underscores: surrounding spaces, an optional
\* sign, decimal digits; ok is FALSE where it raises ValueError
ParseInt10(s) ==
    LET t == StripSpaces(s)
        signed == Len(t) > 0 /\ t[1] \in {"+", "-"}
        body == IF signed THEN Tail(t) ELSE t
        ok == /\ Len(body) > 0
              /\ \A i \in 1..Len(body) :
                     body[i] \in {"0", "1", "2", "3", "4", "5", "6", "7", "8", "9"}
    IN  [ok |-> ok,
         value |-> IF ~ok THEN 0
                   ELSE IF signed /\ t[1] = "-" THEN -DecimalValue(body)
                   ELSE DecimalValue(body)]

\* app.py create_session
app_create_session(ss, session_id, header_file, t) ==
    Response(create_session(ss, session_id, header_file, t), 200)

\* app.py get_session
app_get_session(ss, session_id, t) ==
    IF session_id \notin DOMAIN ss THEN Response(ss, 404)
    ELSE LET got == get_session(ss, session_id, t)
         IN  Response([got.sessions EXCEPT ![session_id] = save_profiles_to_temp(@)], 200)

\* app.py delete_session
app_delete_session(ss, session_id) ==
    LET r == delete_session(ss, session_id)
    IN  Response(r.sessions, IF r.ret THEN 200 ELSE 404)

\* characters.py convert_character_to_info: raised where CharacterInfo refuses
\* a field. Its sex and skin are declared int, and list_characters puts the
\* strings 'Male' or 'Female' and the name of the skin there, which are no
\* numbers: the constructor raises ValidationError for every character.
convert_character_to_info(char_data, index) ==
    [raised |-> \/ char_data.sex \in {"Male", "Female"}
                \/ char_data.skin.label
                       \in {"White", "Light", "Tan", "Dark", "Black", "Unknown"}]

\* [convert_character_to_info(char, idx) for idx, char in enumerate(characters)]
\* raises
ConversionRaises(characters) ==
    \E i \in 1..Len(characters) : convert_character_to_info(characters[i], i - 1).raised

\* characters.py list_session_characters
list_session_characters(ss, session_id, t) ==
    LET got == get_session(ss, session_id, t)
    IN  IF ~got.found THEN Response(ss, 404)
        ELSE CHOOSE response \in
                 {Response([got.sessions EXCEPT ![session_id] = saved],
                           IF ConversionRaises(list_characters(saved.temp))
                           THEN 500 ELSE 200) :
                      saved \in {save_profiles_to_temp(got.sessions[session_id])}} : TRUE

\* characters.py get_character
get_character(ss, session_id, character_index, t) ==
    LET got == get_session(ss, session_id, t)
    IN  IF ~got.found THEN Response(ss, 404)
        ELSE CHOOSE response \in
                 {Response([got.sessions EXCEPT ![session_id] = saved],
                           LET characters == list_characters(saved.temp)
                           IN  IF \/ character_index < 0
                                  \/ character_index >= Len(characters)
                               THEN 404
                               ELSE IF convert_character_to_info(
                                           characters[character_index + 1],
                                           character_index).raised
                               THEN 500 ELSE 200) :
                      saved \in {save_profiles_to_temp(got.sessions[session_id])}} : TRUE

\* characters.py get_character_face_code
get_character_face_code(ss, session_id, character_index, t) ==
    LET got == get_session(ss, session_id, t)
    IN  IF ~got.found THEN Response(ss, 404)
        ELSE CHOOSE response \in
                 {Response([got.sessions EXCEPT ![session_id] = saved],
                           IF \/ character_index < 0
                              \/ character_index >= Len(list_characters(saved.temp))
                           THEN 404 ELSE 200) :
                      saved \in {save_profiles_to_temp(got.sessions[session_id])}} : TRUE

\* delete_session_character from the index check on, for the session as it is
\* after save_profiles_to_temp
DeleteListed(ss, session_id, saved, character_index, t) ==
    IF character_index < 0 \/ character_index >= Len(list_characters(saved.temp))
    THEN Response([ss EXCEPT ![session_id] = saved], 404)
    ELSE LET backed == SessionData_add_backup(saved, t)
             r == delete_character(backed.temp, Some(character_index), None)
         IN  IF ~r.ret
             THEN Response([ss EXCEPT ![session_id] = backed], 400)
             ELSE Response([ss EXCEPT ![session_id] =
                               load_profiles_from_temp([backed EXCEPT !.temp = r.file], t)],
                           200)

\* characters.py delete_session_character
delete_session_character(ss, session_id, character_index, t) ==
    LET got == get_session(ss, session_id, t)
    IN  IF ~got.found THEN Response(ss, 404)
        ELSE CHOOSE response \in
                 {DeleteListed(got.sessions, session_id, saved, character_index, t) :
                      saved \in {save_profiles_to_temp(got.sessions[session_id])}} : TRUE

\* characters.py generate_random_characters; count is request.count, which
\* the request model keeps at 1 or more
generate_random_characters(ss, session_id, count, seed, header_file, common_char_file, t) ==
    LET got == get_session(ss, session_id, t)
    IN  IF ~got.found THEN Response(ss, 404)
        ELSE LET saved == save_profiles_to_temp(got.sessions[session_id])
                 backed == SessionData_add_backup(saved, t)
                 generated == generate_n_random_characters(count, header_file,
                                                           common_char_file, seed)
                 loaded == load_profiles_from_temp([backed EXCEPT !.temp = generated], t)
                 characters == list_characters(generated)
             IN  Response([ss EXCEPT ![session_id] = loaded],
                          IF ConversionRaises(SubSeq(characters,
                                                     Max(1, Len(characters) - count + 1),
                                                     Len(characters)))
                          THEN 500 ELSE 200)

\* characters.py update_character
update_character(ss, session_id, character_index, t) ==
    LET got == get_session(ss, session_id, t)
    IN  IF ~got.found THEN Response(ss, 404)
        ELSE LET saved == save_profiles_to_temp(got.sessions[session_id])
             IN  IF \/ character_index < 0
                    \/ character_index >= Len(list_characters(saved.temp))
                 THEN Response([ss EXCEPT ![session_id] = saved], 404)
                 ELSE Response([ss EXCEPT ![session_id] = SessionData_add_backup(saved, t)],
                               501)

\* characters.py apply_face_code_to_character; face_code is
\* request.get('face_code')
apply_face_code_to_character(ss, session_id, character_index, face_code, t) ==
    LET got == get_session(ss, session_id, t)
    IN  IF ~got.found THEN Response(ss, 404)
        ELSE IF Falsy(face_code) THEN Response(got.sessions, 400)
        ELSE LET saved == save_profiles_to_temp(got.sessions[session_id])
             IN  IF \/ character_index < 0
                    \/ character_index >= Len(list_characters(saved.temp))
                 THEN Response([ss EXCEPT ![session_id] = saved], 404)
                 ELSE Response([ss EXCEPT ![session_id] = SessionData_add_backup(saved, t)],
                               501)

\* app.py shutdown_event, the loop over the session ids: delete_session for
\* each of them
RECURSIVE DeleteSessions(_, _)
DeleteSessions(ss, session_ids) ==
    IF session_ids = {} THEN ss
    ELSE LET session_id == CHOOSE id \in session_ids : TRUE
         IN  DeleteSessions(delete_session(ss, session_id).sessions,
                            session_ids \ {session_id})

\* app.py shutdown_event
shutdown_event(ss) == Response(DeleteSessions(ss, get_session_ids(ss)), 200)

\* files.py upload_profiles_file up to "await file.read()": status 0 stands
\* for the handler suspended there. (The files of the model are smaller than
\* MAX_FILE_SIZE.)
upload_profiles_file_to_read(ss, session_id, dat_extension, t) ==
    LET got == get_session(ss, session_id, t)
    IN  IF ~got.found THEN Response(ss, 404)
        ELSE IF ~dat_extension THEN Response(got.sessions, 400)
        ELSE Response(got.sessions, 0)

\* files.py upload_profiles_file from "content = await file.read()" on. The
\* handler holds the session object it fetched before the await: when the
\* session was removed meanwhile, add_backup and update_session_data find no
\* session, save_profiles_to_temp writes the removed session's buffer under
\* its temp_dir, which write_profiles creates again, and the upload succeeds.
upload_profiles_file_from_read(ss, session_id, content, t) ==
    IF ~validate_profiles_format(content) THEN Response(ss, 400)
    ELSE IF session_id \notin DOMAIN ss THEN Response(ss, 200)
    ELSE LET backed == IF Len(ss[session_id].profiles_data) > 12
                       THEN add_backup(ss, session_id, t) ELSE ss
             updated == update_session_data(backed, session_id, content, t)
         IN  Response([updated EXCEPT ![session_id] = save_profiles_to_temp(@)], 200)

\* files.py upload_profiles_file when file.read() returns at once, as it does
\* for a file Starlette holds in memory
upload_profiles_file(ss, session_id, content, dat_extension, t) ==
    LET to_read == upload_profiles_file_to_read(ss, session_id, dat_extension, t)
    IN  IF to_read.status # 0 THEN to_read
        ELSE upload_profiles_file_from_read(to_read.sessions, session_id, content, t)

\* files.py download_profiles_file
download_profiles_file(ss, session_id, t) ==
    LET got == get_session(ss, session_id, t)
    IN  Response(got.sessions, IF got.found THEN 200 ELSE 404)

\* files.py export_characters_json
export_characters_json(ss, session_id, t) ==
    LET got == get_session(ss, session_id, t)
    IN  IF ~got.found THEN Response(ss, 404)
        ELSE Response([got.sessions EXCEPT ![session_id] = save_profiles_to_temp(@)], 200)

\* files.py create_backup
create_backup(ss, session_id, t) ==
    LET got == get_session(ss, session_id, t)
    IN  IF ~got.found THEN Response(ss, 404)
        ELSE Response(add_backup(got.sessions, session_id, t), 200)

\* files.py restore_from_backup; backup_id is request.backup_id
files_restore_from_backup(ss, session_id, backup_id, t) ==
    LET got == get_session(ss, session_id, t)
    IN  IF ~got.found THEN Response(ss, 404)
        ELSE IF Len(got.sessions[session_id].backups) = 0 THEN Response(got.sessions, 404)
        ELSE IF Falsy(backup_id)
        THEN LET r == restore_from_backup(got.sessions, session_id, -1, t)
             IN  Response(r.sessions, IF r.ret THEN 200 ELSE 404)
        ELSE IF SecondField(backup_id[1]) = None THEN Response(got.sessions, 400)
        ELSE IF ~ParseInt10(SecondField(backup_id[1])[1]).ok THEN Response(got.sessions, 400)
        ELSE LET backup_num == ParseInt10(SecondField(backup_id[1])[1]).value
                 r == restore_from_backup(got.sessions, session_id, backup_num - 1, t)
             IN  Response(r.sessions, IF r.ret THEN 200 ELSE 404)

\* files.py list_backups
list_backups(ss, session_id, t) ==
    LET got == get_session(ss, session_id, t)
    IN  Response(got.sessions, IF got.found THEN 200 ELSE 404)

\* files.py delete_backup; backup_id is the path parameter
delete_backup(ss, session_id, backup_id, t) ==
    LET got == get_session(ss, session_id, t)
    IN  IF ~got.found THEN Response(ss, 404)
        ELSE IF SecondField(backup_id) = None THEN Response(got.sessions, 500)
        ELSE IF ~ParseInt10(SecondField(backup_id)[1]).ok THEN Response(got.sessions, 400)
        ELSE LET backup_index == ParseInt10(SecondField(backup_id)[1]).value - 1
                 backups == got.sessions[session_id].backups
             IN  IF backup_index < 0 \/ backup_index >= Len(backups)
                 THEN Response(got.sessions, 404)
                 ELSE Response([got.sessions EXCEPT ![session_id].backups =
                                   SubSeq(backups, 1, backup_index)
                                       \o SubSeq(backups, backup_index + 2, Len(backups))],
                               200)

-----------------------------------------------------------------------------
(* The requests of the service model.                                      *)

\* no session
NoSessions == [sid \in {} |-> SessionData(<<>>, 0)]

\* the last request served: none
NoReq == [op |-> "none", sid |-> 0, status |-> 0, arg |-> <<>>]

\* the service is not running
NoApi ==
    /\ sessions = NoSessions
    /\ now = 0
    /\ sweep_at = 0
    /\ inflight = EmptyBag
    /\ req = NoReq
    /\ taken = <<>>

\* uploaded files: a roster of two records, a file shorter than the header,
\* a header reporting 1001 records
UploadContents ==
    {Roster(2, 2, 1, 2, 0).data,
     <<10, 0, 0, 0, 2>>,
     <<10, 0, 0, 0>> \o ToBytesLittle4(1001) \o ToBytesLittle4(1001)}

BackupWord == <<"b", "a", "c", "k", "u", "p">>

\* backup ids: "backup_0" to "backup_2", "backup_-1", "backup_x", "backup"
BackupIds ==
    {BackupWord \o <<"_", d>> : d \in {"0", "1", "2", "x"}}
    \cup {BackupWord \o <<"_", "-", "1">>, BackupWord}

\* request.backup_id of a restore request: absent, empty, or a backup id
RestoreIds == {None, Some(<<>>)} \cup {Some(id) : id \in BackupIds}

\* request.get('face_code') of an apply request: absent, the code of the
\* documentation, a code with a character that is no hex digit
ApplyFaceCodes == {None, Some(DocCode), Some([DocCode EXCEPT ![1] = "g"])}

\* character_index of a character request: below the first record, a record
\* of a roster of two, beyond the last
CharacterIndexes == {-1, 0, 1, 2}

\* request.count of a generate request
GenerateCounts == {1}

\* the state random is in when a generate request arrives
SessionSeeds == {0}

\* the ids of the requests: the sessions created so far, deleted ones too
RequestIds == 1..Len(taken)

-----------------------------------------------------------------------------
(* The roster operations as actions.                                       *)

DeleteCharacter ==
    \E args \in DeleteArgs :
        LET r == delete_character(file, args[1], args[2])
        IN  /\ file' = r.file
            /\ last' = [NoLast EXCEPT !.op = "delete", !.index = args[1], !.name = args[2],
                                      !.pre = file, !.ret = r.ret]
            /\ UNCHANGED <<resources, backup_dir, fc, apiVars>>

ListCharacters ==
    /\ last' = [NoLast EXCEPT !.op = "list", !.pre = file,
                              !.characters = list_characters(file)]
    /\ UNCHANGED <<file, resources, backup_dir, fc, apiVars>>

ServiceBackup ==
    \E backup_to_filename \in BackupNames :
        \E r \in {service_backup(file, backup_dir, backup_to_filename)} :
            /\ backup_dir' = r.dir
            /\ last' = [NoLast EXCEPT !.op = "backup", !.pre = file, !.ret = ~r.raised]
            /\ UNCHANGED <<file, resources, fc, apiVars>>

ServiceRestoreFromBackup ==
    \E restore_from_filename \in BackupNames :
        \E r \in {service_restore_from_backup(file, backup_dir, restore_from_filename)} :
            /\ file' = r.file
            /\ last' = [NoLast EXCEPT !.op = "restore", !.pre = file, !.ret = ~r.raised]
            /\ UNCHANGED <<resources, backup_dir, fc, apiVars>>

Generate(sizes) ==
    \E n \in sizes, seed \in Seeds :
        /\ file' = generate_n_random_characters(n, resources.header_file,
                                                resources.common_char_file, seed)
        /\ last' = [NoLast EXCEPT !.op = "generate", !.n = n, !.seed = seed]
        /\ UNCHANGED <<resources, backup_dir, fc, apiVars>>

GenerateCharacters == Generate(0..MaxGen)

\* rosters up to MaxGen records, and from one alphabet up to MaxN records
GenerateManyCharacters == Generate((0..MaxGen) \cup (ALPHABET_SIZE..MaxN))

-----------------------------------------------------------------------------
(* The face code functions as actions on the input drawn initially.        *)

ValidateFaceCode ==
    /\ fc.kind = "code"
    /\ fc' = [Input(fc) EXCEPT !.op = "validate", !.ok = validate_face_code(fc.code)]
    /\ UNCHANGED <<file, resources, backup_dir, last, apiVars>>

ParseFaceCodeComponents ==
    /\ fc.kind = "code"
    /\ LET r == parse_face_code_components(fc.code)
       IN  fc' = [Input(fc) EXCEPT !.op = "parse", !.ok = ~r.raised, !.error = r.error,
                                   !.parsed = r.components]
    /\ UNCHANGED <<file, resources, backup_dir, last, apiVars>>

GenerateFaceCode ==
    /\ fc.kind = "components"
    /\ LET r == generate_face_code(fc.components)
       IN  fc' = [Input(fc) EXCEPT !.op = "generate", !.ok = TRUE, !.out = r.code,
                                   !.after = r.components]
    /\ UNCHANGED <<file, resources, backup_dir, last, apiVars>>

FormatFaceCode ==
    /\ fc.kind = "code"
    /\ \E include_prefix \in BOOLEAN :
           fc' = [Input(fc) EXCEPT !.op = "format", !.ok = TRUE,
                                   !.include_prefix = include_prefix,
                                   !.out = format_face_code(fc.code, include_prefix)]
    /\ UNCHANGED <<file, resources, backup_dir, last, apiVars>>

ExtractFaceCode ==
    /\ fc.kind = "bytes"
    /\ LET r == extract_face_code(fc.data, fc.char_offset)
       IN  fc' = [Input(fc) EXCEPT !.op = "extract", !.ok = ~r.raised, !.error = r.error,
                                   !.out = r.code]
    /\ UNCHANGED <<file, resources, backup_dir, last, apiVars>>

ApplyFaceCode ==
    /\ fc.kind = "bytes"
    /\ LET r == apply_face_code(fc.data, fc.code, fc.char_offset)
       IN  fc' = [Input(fc) EXCEPT !.op = "apply", !.ok = ~r.raised, !.error = r.error,
                                   !.bytes = r.bytes]
    /\ UNCHANGED <<file, resources, backup_dir, last, apiVars>>

InitFace ==
    /\ file = NoFile
    /\ resources = [header_file |-> <<>>, common_char_file |-> <<>>]
    /\ backup_dir = NoBackups
    /\ last = NoLast
    /\ fc \in FaceInputs
    /\ NoApi

NextFace ==
    \/ ValidateFaceCode
    \/ ParseFaceCodeComponents
    \/ GenerateFaceCode
    \/ FormatFaceCode
    \/ ExtractFaceCode
    \/ ApplyFaceCode

SpecFace == InitFace /\ [][NextFace]_vars

-----------------------------------------------------------------------------
(* The roster specifications.                                              *)

Init ==
    /\ file \in InitFiles
    /\ resources = [header_file |-> <<10, 0, 0, 0, 0, 0, 0, 0, 0, 0, 0, 0>>,
                    common_char_file |-> Fill(0, 12) \o MkRecord(1, <<97>>, 0)]
    /\ backup_dir = NoBackups
    /\ last = NoLast
    /\ fc = NoFc
    /\ NoApi

Next ==
    \/ DeleteCharacter
    \/ ListCharacters
    \/ GenerateCharacters

Spec == Init /\ [][Next]_vars

\* generation of rosters longer than the alphabet, and their listing
InitGen ==
    /\ file \in {NoFile, Roster(2, 2, 1, 2, 0)}
    /\ resources \in [header_file : HeaderFiles, common_char_file : CommonCharFiles]
    /\ backup_dir = NoBackups
    /\ last = NoLast
    /\ fc = NoFc
    /\ NoApi

NextGen ==
    \/ GenerateManyCharacters
    \/ ListCharacters

SpecGen == InitGen /\ [][NextGen]_vars

\* a roster whose two header counts are equal and which holds that many
\* records of the minimum size and nothing else
WellFormed(f) ==
    /\ f.exists
    /\ Len(f.data) >= HEADER_SIZE
    /\ IntFromBytesLittle(Slice(f.data, 4, 8)) = IntFromBytesLittle(Slice(f.data, 8, 12))
    /\ Len(f.data) = HEADER_SIZE
           + MIN_BYTES_AMOUNT_FOR_CHAR * IntFromBytesLittle(Slice(f.data, 4, 8))

\* sequences of deletions, generations and listings from a well-formed roster,
\* with a template record of the minimum size or longer
InitOps ==
    /\ file \in {f \in InitFiles : WellFormed(f)}
    /\ resources \in [header_file : HeaderFiles, common_char_file : CommonCharFiles]
    /\ backup_dir = NoBackups
    /\ last = NoLast
    /\ fc = NoFc
    /\ NoApi

NextOps ==
    \/ DeleteCharacter
    \/ GenerateCharacters
    \/ ListCharacters

SpecOps == InitOps /\ [][NextOps]_vars

\* backups of the profiles file and restores from them, between deletions
\* and listings, from a well-formed roster and an empty backup directory
InitBackup ==
    /\ file \in {f \in InitFiles : WellFormed(f)} \cup {NoFile}
    /\ resources \in [header_file : {<<10, 0, 0, 0, 0, 0, 0, 0, 0, 0, 0, 0>>},
                      common_char_file : {Fill(0, 12) \o MkRecord(1, <<97>>, 0)}]
    /\ backup_dir = NoBackups
    /\ last = NoLast
    /\ fc = NoFc
    /\ NoApi

NextBackup ==
    \/ ServiceBackup
    \/ ServiceRestoreFromBackup
    \/ DeleteCharacter
    \/ ListCharacters

SpecBackup == InitBackup /\ [][NextBackup]_vars

\* a backup leaves the profiles file as it is and holds its bytes; a restore
\* leaves the bytes of the backup file in the profiles file; both raise where
\* the file they read is missing, and then change nothing
BackupAndRestoreCopyBytes ==
    /\ last.op = "backup" =>
           /\ file = last.pre
           /\ last.ret = last.pre.exists
           /\ last.ret => backup_dir["b.dat"] = [exists |-> TRUE, data |-> file.data]
    /\ last.op = "restore" =>
           /\ last.ret = backup_dir["b.dat"].exists
           /\ last.ret => file = [exists |-> TRUE, data |-> backup_dir["b.dat"].data]
           /\ ~last.ret => file = last.pre

-----------------------------------------------------------------------------
(* The service as actions: one per request handler, one for the cleanup    *)
(* task, one for the clock.                                                *)

\* the backups taken after a request: what a session's list gained
Taken(old, new) ==
    [sid \in DOMAIN taken |->
        IF /\ sid \in DOMAIN old
           /\ sid \in DOMAIN new
           /\ Len(new[sid].backups) = Len(old[sid].backups) + 1
        THEN Append(taken[sid], new[sid].backups[Len(new[sid].backups)])
        ELSE taken[sid]]

\* the application has not been shut down: after shutdown_event no request is
\* served and the cleanup task runs no more
Running == req.op # "shutdown"

Serve(op, session_id, arg, response) ==
    /\ Running
    /\ sessions' = response.sessions
    /\ req' = [op |-> op, sid |-> session_id, status |-> response.status, arg |-> arg]
    /\ taken' = Taken(sessions, response.sessions)
    /\ \A sid \in DOMAIN taken : Len(taken'[sid]) <= MaxTaken
    /\ UNCHANGED <<file, resources, backup_dir, last, fc, now, sweep_at, inflight>>

CreateSession ==
    /\ Running
    /\ Len(taken) < MaxSessions
    /\ \E response \in {app_create_session(sessions, Len(taken) + 1,
                                           resources.header_file, now)} :
           /\ sessions' = response.sessions
           /\ req' = [op |-> "create_session", sid |-> Len(taken) + 1,
                      status |-> response.status, arg |-> <<>>]
    /\ taken' = Append(taken, <<>>)
    /\ UNCHANGED <<file, resources, backup_dir, last, fc, now, sweep_at, inflight>>

GetSession ==
    \E session_id \in RequestIds :
        \E response \in {app_get_session(sessions, session_id, now)} :
            Serve("get_session", session_id, <<>>, response)

DeleteSession ==
    \E session_id \in RequestIds :
        \E response \in {app_delete_session(sessions, session_id)} :
            Serve("delete_session", session_id, <<>>, response)

ListSessionCharacters ==
    \E session_id \in RequestIds :
        \E response \in {list_session_characters(sessions, session_id, now)} :
            Serve("list", session_id, <<>>, response)

GetCharacter ==
    \E session_id \in RequestIds, character_index \in CharacterIndexes :
        \E response \in {get_character(sessions, session_id, character_index, now)} :
            Serve("get_character", session_id, <<>>, response)

GetCharacterFaceCode ==
    \E session_id \in RequestIds, character_index \in CharacterIndexes :
        \E response \in {get_character_face_code(sessions, session_id,
                                                 character_index, now)} :
            Serve("get_face_code", session_id, <<>>, response)

DeleteSessionCharacter ==
    \E session_id \in RequestIds, character_index \in CharacterIndexes :
        \E response \in {delete_session_character(sessions, session_id,
                                                  character_index, now)} :
            Serve("delete", session_id, <<>>, response)

GenerateRandomCharacters ==
    \E session_id \in RequestIds, count \in GenerateCounts, seed \in SessionSeeds :
        \E response \in {generate_random_characters(sessions, session_id, count, seed,
                             resources.header_file, resources.common_char_file, now)} :
            Serve("generate", session_id, <<>>, response)

UpdateCharacter ==
    \E session_id \in RequestIds, character_index \in CharacterIndexes :
        \E response \in {update_character(sessions, session_id, character_index, now)} :
            Serve("update", session_id, <<>>, response)

ApplyFaceCodeToCharacter ==
    \E session_id \in RequestIds, character_index \in CharacterIndexes,
       face_code \in ApplyFaceCodes :
        \E response \in {apply_face_code_to_character(sessions, session_id,
                                                      character_index, face_code, now)} :
            Serve("apply", session_id, face_code, response)

\* upload_profiles_file of a file held in memory
UploadProfilesFileInMemory ==
    \E session_id \in RequestIds, content \in UploadContents, dat_extension \in BOOLEAN :
        \E response \in {upload_profiles_file(sessions, session_id, content,
                                              dat_extension, now)} :
            Serve("upload", session_id, <<content>>, response)

\* upload_profiles_file of a file held on disk, until it responds or waits
\* for the file's content
UploadProfilesFile ==
    \E session_id \in RequestIds, content \in UploadContents, dat_extension \in BOOLEAN :
        \E response \in {upload_profiles_file_to_read(sessions, session_id,
                                                      dat_extension, now)} :
            /\ Running
            /\ sessions' = response.sessions
            /\ req' = [op |-> "upload", sid |-> session_id,
                       status |-> response.status, arg |-> <<content>>]
            /\ IF response.status = 0
               THEN /\ BagCardinality(inflight) < MaxInflight
                    /\ inflight' = inflight (+) SetToBag({[sid |-> session_id,
                                                            content |-> content]})
               ELSE inflight' = inflight
            /\ UNCHANGED <<file, resources, backup_dir, last, fc, now, sweep_at, taken>>

\* upload_profiles_file from the moment file.read() returns
UploadProfilesFileRead ==
    \E upload \in BagToSet(inflight) :
        \E response \in {upload_profiles_file_from_read(sessions, upload.sid,
                                                        upload.content, now)} :
            /\ Running
            /\ sessions' = response.sessions
            /\ req' = [op |-> "upload", sid |-> upload.sid,
                       status |-> response.status, arg |-> <<upload.content>>]
            /\ taken' = Taken(sessions, response.sessions)
            /\ \A sid \in DOMAIN taken : Len(taken'[sid]) <= MaxTaken
            /\ inflight' = inflight (-) SetToBag({upload})
            /\ UNCHANGED <<file, resources, backup_dir, last, fc, now, sweep_at>>

DownloadProfilesFile ==
    \E session_id \in RequestIds :
        \E response \in {download_profiles_file(sessions, session_id, now)} :
            Serve("download", session_id, <<>>, response)

ExportCharactersJson ==
    \E session_id \in RequestIds :
        \E response \in {export_characters_json(sessions, session_id, now)} :
            Serve("export", session_id, <<>>, response)

CreateBackup ==
    \E session_id \in RequestIds :
        \E response \in {create_backup(sessions, session_id, now)} :
            Serve("backup", session_id, <<>>, response)

RestoreFromBackup ==
    \E session_id \in RequestIds, backup_id \in RestoreIds :
        \E response \in {files_restore_from_backup(sessions, session_id, backup_id, now)} :
            Serve("restore", session_id, backup_id, response)

ListBackups ==
    \E session_id \in RequestIds :
        \E response \in {list_backups(sessions, session_id, now)} :
            Serve("list_backups", session_id, <<>>, response)

DeleteBackup ==
    \E session_id \in RequestIds, backup_id \in BackupIds :
        \E response \in {delete_backup(sessions, session_id, backup_id, now)} :
            Serve("delete_backup", session_id, <<>>, response)

\* one run of the loop of session_cleanup_task: the sweep, then the sleep
SessionCleanupTask ==
    /\ Running
    /\ now >= sweep_at
    /\ \E swept \in {cleanup_expired_sessions(sessions, now)} :
           /\ sessions' = swept.sessions
           /\ req' = [op |-> "cleanup", sid |-> 0, status |-> swept.count, arg |-> <<>>]
    /\ sweep_at' = now + CLEANUP_SLEEP
    /\ UNCHANGED <<file, resources, backup_dir, last, fc, now, inflight, taken>>

\* the application shuts down: shutdown_event deletes every session; status
\* 200 stands for the event having run to its end
ShutdownEvent ==
    /\ Running
    /\ \E response \in {shutdown_event(sessions)} :
           /\ sessions' = response.sessions
           /\ req' = [op |-> "shutdown", sid |-> 0, status |-> response.status,
                      arg |-> <<>>]
    /\ UNCHANGED <<file, resources, backup_dir, last, fc, now, sweep_at, inflight, taken>>

\* an hour passes
Tick ==
    /\ now < MaxTime
    /\ now' = now + 1
    /\ UNCHANGED <<file, resources, backup_dir, last, fc, sessions, sweep_at, inflight, req, taken>>

\* one session, just created from header.dat, and the requests on it one
\* after the other, at one time of the clock
InitSession ==
    /\ file = NoFile
    /\ resources \in [header_file : {<<10, 0, 0, 0, 0, 0, 0, 0, 0, 0, 0, 0>>},
                      common_char_file : {Fill(0, 12) \o MkRecord(1, <<97>>, 0)}]
    /\ backup_dir = NoBackups
    /\ last = NoLast
    /\ fc = NoFc
    /\ sessions = create_session(NoSessions, 1, resources.header_file, 0)
    /\ now = 0
    /\ sweep_at = 0
    /\ inflight = EmptyBag
    /\ req = NoReq
    /\ taken = <<(<<>>)>>

NextSession ==
    \/ DeleteSession
    \/ ListSessionCharacters
    \/ GetCharacter
    \/ GetCharacterFaceCode
    \/ DownloadProfilesFile
    \/ ExportCharactersJson
    \/ DeleteSessionCharacter
    \/ GenerateRandomCharacters
    \/ UpdateCharacter
    \/ ApplyFaceCodeToCharacter
    \/ UploadProfilesFileInMemory
    \/ CreateBackup
    \/ RestoreFromBackup
    \/ DeleteBackup

SpecSession == InitSession /\ [][NextSession]_vars

\* the same session, with uploads of files held on disk: requests are served
\* while an upload waits for its file's content
NextUpload ==
    \/ UploadProfilesFile
    \/ UploadProfilesFileRead
    \/ ListSessionCharacters
    \/ GenerateRandomCharacters
    \/ CreateBackup
    \/ DeleteSession

SpecUpload == InitSession /\ [][NextUpload]_vars

\* the lifetime of sessions: created, looked up, deleted and swept while the
\* clock runs
InitExpiry ==
    /\ file = NoFile
    /\ resources \in [header_file : {<<10, 0, 0, 0, 0, 0, 0, 0, 0, 0, 0, 0>>},
                      common_char_file : {Fill(0, 12) \o MkRecord(1, <<97>>, 0)}]
    /\ backup_dir = NoBackups
    /\ last = NoLast
    /\ fc = NoFc
    /\ NoApi

NextExpiry ==
    \/ CreateSession
    \/ GetSession
    \/ ListBackups
    \/ DeleteSession
    \/ SessionCleanupTask
    \/ ShutdownEvent
    \/ Tick

SpecExpiry == InitExpiry /\ [][NextExpiry]_vars

-----------------------------------------------------------------------------
(* The roster claims.                                                      *)

\* read_header_counts: the two little-endian count fields of a buffer
CountA(data) == IntFromBytesLittle(Slice(data, 4, 8))
CountB(data) == IntFromBytesLittle(Slice(data, 8, 12))

\* the span of the k-th record (k = 0, 1, ...) of a roster
RecordStart(k) == HEADER_SIZE + k * MIN_BYTES_AMOUNT_FOR_CHAR
RecordEnd(k) == RecordStart(k) + MIN_BYTES_AMOUNT_FOR_CHAR

\* the name stored in the k-th record of a buffer
RecordName(data, k) ==
    RStripNul(DecodeIgnore(Slice(data, RecordStart(k) + 4,
                                 RecordStart(k) + 4 + At(data, RecordStart(k)))))

DeleteSucceeded == last.op = "delete" /\ last.ret

\* C1: after a successful delete_character on a roster whose two header counts
\* agree, the two count fields of the written file are equal to each other and
\* to the count before the delete minus 1.
C1_DeleteDecrementsBothCounts ==
    (DeleteSucceeded /\ CountA(last.pre.data) = CountB(last.pre.data)) =>
        /\ Slice(file.data, 4, 8) = Slice(file.data, 8, 12)
        /\ CountA(file.data) = CountB(file.data)
        /\ CountA(file.data) = CountA(last.pre.data) - 1

C1_Witness ==
    /\ DeleteSucceeded
    /\ CountA(last.pre.data) = 3
    /\ CountB(last.pre.data) = 3
    /\ CountA(file.data) = 2

\* the record a delete_character call selects (k = 0, 1, ...): the index when
\* one is given, else the first record that has the name
SelectedRecord(pre, index, name) ==
    IF index # None THEN index[1]
    ELSE CHOOSE k \in 0..Len(pre) :
            /\ RecordStart(k) < Len(pre)
            /\ RecordName(pre, k) = name[1]
            /\ \A j \in 0..(k - 1) : RecordName(pre, j) # name[1]

\* C2: a successful delete_character removes exactly the selected record's
\* byte span [start, end): the written file is the original file without those
\* bytes, header bytes [0,4) and every other record are byte-identical and in
\* their original order, and only the two count fields are rewritten.
C2_DeleteRemovesExactlyTheSpan ==
    DeleteSucceeded =>
        LET pre == last.pre.data
            k == SelectedRecord(pre, last.index, last.name)
        IN  /\ file.exists
            /\ file.data = Slice(pre, 0, 4) \o Slice(file.data, 4, 12)
                               \o Slice(pre, HEADER_SIZE, RecordStart(k))
                               \o SliceFrom(pre, RecordEnd(k))
            /\ Len(file.data) = Len(pre) - (Min(RecordEnd(k), Len(pre)) - RecordStart(k))

C2_Witness ==
    /\ DeleteSucceeded
    /\ last.index = Some(1)
    /\ Len(last.pre.data) = RecordEnd(2)
    /\ Len(file.data) = RecordEnd(1)
    /\ SliceFrom(file.data, RecordStart(1)) = SliceFrom(last.pre.data, RecordStart(2))

\* the number of records a roster file holds: the record spans that start
\* inside bytes [12, EOF)
RecordsHeld(data) ==
    IF Len(data) <= HEADER_SIZE THEN 0
    ELSE ((Len(data) - HEADER_SIZE - 1) \div MIN_BYTES_AMOUNT_FOR_CHAR) + 1

\* the cases in which delete_character is to fail
DeleteMustFail(pre, index, name) ==
    \/ index = None /\ name = None
    \/ ~pre.exists
    \/ RecordsHeld(pre.data) = 1
    \/ index # None /\ (index[1] < 0 \/ index[1] >= RecordsHeld(pre.data))
    \/ /\ index = None
       /\ name # None
       /\ \A k \in 0..(RecordsHeld(pre.data) - 1) : RecordName(pre.data, k) # name[1]

\* C3: delete_character returns False and leaves the roster file unchanged
\* when neither index nor name is given, when the roster holds a single
\* record, when the index is negative or not less than the number of records,
\* when no record has the given name, and when the file does not exist.
C3_DeleteFailsAndLeavesFile ==
    (last.op = "delete" /\ DeleteMustFail(last.pre, last.index, last.name)) =>
        (~last.ret /\ file = last.pre)

\* C4: list_characters takes the count to be count_a when the two header
\* counts agree and max(count_a, count_b) when they differ, and on a buffer of
\* a header followed by exactly count complete records it returns exactly count
\* records, with indices 0..count-1, in file order.
C4_ListReturnsCountRecords ==
    (last.op = "list" /\ last.pre.exists /\ Len(last.pre.data) >= HEADER_SIZE) =>
        LET data == last.pre.data
            count == IF CountA(data) = CountB(data) THEN CountA(data)
                     ELSE Max(CountA(data), CountB(data))
        IN  Len(data) = RecordStart(count) =>
                /\ Len(last.characters) = count
                /\ \A i \in 0..(count - 1) :
                       /\ last.characters[i + 1].index = i
                       /\ last.characters[i + 1].name = RecordName(data, i)
                       /\ last.characters[i + 1].skin.byte
                              = At(data, RecordStart(i) + CHAR_OFFSETS.SKIN)

C4_Witness ==
    /\ last.op = "list"
    /\ CountA(last.pre.data) = 1
    /\ CountB(last.pre.data) = 3
    /\ Len(last.pre.data) = RecordStart(3)
    /\ Len(last.characters) = 3
    /\ last.characters[3].index = 2

\* the name of generation index i: the letter i mod 26 of the lowercase
\* alphabet, followed by the decimal value of i div 26 when that is not zero
ExpectedName(i) ==
    IF i \div 26 = 0 THEN <<97 + (i % 26)>> ELSE <<97 + (i % 26)>> \o StrOfInt(i \div 26)

\* the template record generate_n_random_characters copies
Template == SliceFrom(resources.common_char_file, 12)

\* C5: after generate_n_random_characters(n) with an 89-byte template record
\* both header counts of the written roster equal n, it holds exactly n
\* records whatever the file held before, and list_characters returns n
\* records of which the i-th is named ExpectedName(i); the n names are distinct.
C5_GenerateCountsAndNames ==
    (last.op = "generate" /\ Len(Template) = MIN_BYTES_AMOUNT_FOR_CHAR) =>
        LET characters == list_characters(file)
        IN  /\ file.exists
            /\ CountA(file.data) = last.n
            /\ CountB(file.data) = last.n
            /\ Len(file.data) = RecordStart(last.n)
            /\ Len(characters) = last.n
            /\ \A i \in 0..(last.n - 1) :
                   /\ characters[i + 1].index = i
                   /\ characters[i + 1].name = ExpectedName(i)
            /\ \A i, j \in 1..last.n :
                   characters[i].name = characters[j].name => i = j

C5_Witness ==
    /\ last.op = "generate"
    /\ Len(Template) = MIN_BYTES_AMOUNT_FOR_CHAR
    /\ last.n = 27
    /\ list_characters(file)[27].name = <<97, 49>>

\* C10: every record written by generate_n_random_characters has a sex byte
\* (record offset 5) equal to 0 or 1, for every n and every index i < n.
C10_GeneratedSexByteValid ==
    last.op = "generate" =>
        \A i \in 0..(last.n - 1) :
            At(file.data, HEADER_SIZE + i * Len(Template) + CHAR_OFFSETS.SEX) \in {0, 1}

\* the skin bytes get_random_skin picks from
VALID_SKINS == {0, 16, 32, 48, 64}

\* record i of a freshly generated roster, as generate_n_random_characters
\* wrote it: the i-th span of the template's length after the header
GeneratedRecord(data, i) ==
    Slice(data, HEADER_SIZE + i * Len(Template), HEADER_SIZE + (i + 1) * Len(Template))

\* C11 as stated: every record written by generate_n_random_characters has a
\* skin byte (record offset 14) in {0,16,32,48,64}, so list_characters on the
\* freshly generated roster reports no 'Unknown' skin, for every n.
C11_GeneratedSkinValidAndListed ==
    last.op = "generate" =>
        /\ \A i \in 0..(last.n - 1) :
               At(GeneratedRecord(file.data, i), CHAR_OFFSETS.SKIN) \in VALID_SKINS
        /\ \A k \in 1..Len(list_characters(file)) :
               list_characters(file)[k].skin.label # "Unknown"

\* C11 as amended: every record written has a skin byte in {0,16,32,48,64};
\* when the template record is 89 bytes long, list_characters on the freshly
\* generated roster returns the n records, each with the label of its skin
\* byte and never 'Unknown'.
C11_GeneratedSkinValid ==
    last.op = "generate" =>
        /\ \A i \in 0..(last.n - 1) :
               At(GeneratedRecord(file.data, i), CHAR_OFFSETS.SKIN) \in VALID_SKINS
        /\ Len(Template) = MIN_BYTES_AMOUNT_FOR_CHAR =>
               LET characters == list_characters(file)
               IN  /\ Len(characters) = last.n
                   /\ \A k \in 1..Len(characters) :
                          /\ characters[k].skin.label # "Unknown"
                          /\ characters[k].skin.byte
                                 = At(GeneratedRecord(file.data, k - 1), CHAR_OFFSETS.SKIN)

C11_Witness ==
    /\ last.op = "generate"
    /\ last.n = 27
    /\ Len(Template) = MIN_BYTES_AMOUNT_FOR_CHAR
    /\ Len(list_characters(file)) = 27
    /\ list_characters(file)[27].skin.label = "Tan"
    /\ \E k \in 1..27 : list_characters(file)[k].skin.label = "Black"

\* the record offsets generate_n_random_characters writes in record i: the
\* name_length byte, the name from offset 4 on, the sex byte, the skin byte
\* and the 11 appearance bytes at offsets 21..31
WrittenOffsets(i) ==
    {CHAR_OFFSETS.NAME_LENGTH, CHAR_OFFSETS.SEX, CHAR_OFFSETS.SKIN}
    \cup (CHAR_OFFSETS.NAME..(CHAR_OFFSETS.NAME + Len(ExpectedName(i)) - 1))
    \cup (CHAR_OFFSETS.APPEARANCE..(CHAR_OFFSETS.APPEARANCE + APPEARANCE_BYTES_AMOUNT - 1))

\* C12: each generated record is built from its own unmodified copy of the
\* template: record i has the template's length and differs from the template
\* only in the name_length byte, the name bytes from offset 4, the sex byte,
\* the skin byte and the 11 appearance bytes; its appearance bytes are its own
\* draws, and it is the same record whatever the number of records generated
\* after it.
C12_RecordFromOwnTemplateCopy ==
    last.op = "generate" =>
        /\ Len(file.data) = HEADER_SIZE + last.n * Len(Template)
        /\ \A i \in 0..(last.n - 1) :
               LET record == GeneratedRecord(file.data, i)
                   alone == generate_n_random_characters(i + 1, resources.header_file,
                                resources.common_char_file, last.seed)
               IN  /\ Len(record) = Len(Template)
                   /\ \A j \in 0..(Len(Template) - 1) :
                          j \notin WrittenOffsets(i) => At(record, j) = At(Template, j)
                   /\ \A j \in 0..(APPEARANCE_BYTES_AMOUNT - 1) :
                          <<At(record, CHAR_OFFSETS.APPEARANCE + j)>>
                              = get_random_byte_for_idx(j, last.seed, i * DRAWS_PER_CHAR + j)
                   /\ record = GeneratedRecord(alone.data, i)

C12_Witness ==
    /\ last.op = "generate"
    /\ last.n = 27
    /\ At(Template, 6) = 115
    /\ At(GeneratedRecord(file.data, 26), 0) = 2
    /\ At(GeneratedRecord(file.data, 26), 4) = 97
    /\ At(GeneratedRecord(file.data, 26), 5) = 49
    /\ At(GeneratedRecord(file.data, 26), 6) = 115
    /\ At(GeneratedRecord(file.data, 0), 6) = 115

\* the number of complete record spans contained in bytes [12, EOF)
CompleteRecords(data) ==
    IF Len(data) <= HEADER_SIZE THEN 0
    ELSE (Len(data) - HEADER_SIZE) \div MIN_BYTES_AMOUNT_FOR_CHAR

\* the record count the header declares to list_characters
DeclaredCount(data) ==
    IF CountA(data) = CountB(data) THEN CountA(data) ELSE Max(CountA(data), CountB(data))

\* C13: list_characters never returns more records than fit in the buffer:
\* for every buffer and every pair of header counts the number of records
\* returned is at most the number of complete record spans in bytes [12, EOF).
C13_ListWithinBuffer ==
    (last.op = "list" /\ last.pre.exists) =>
        Len(last.characters) <= CompleteRecords(last.pre.data)

\* C14: when the header declares more records than the buffer holds,
\* list_characters stops at the buffer end and returns the records parsed so
\* far: the complete records before the buffer end are all returned, in order,
\* also when the buffer ends part-way through a record.
C14_ListKeepsParsedRecords ==
    (last.op = "list" /\ last.pre.exists
        /\ DeclaredCount(last.pre.data) > CompleteRecords(last.pre.data)) =>
        /\ Len(last.characters) >= CompleteRecords(last.pre.data)
        /\ \A i \in 0..(CompleteRecords(last.pre.data) - 1) :
               /\ last.characters[i + 1].index = i
               /\ last.characters[i + 1].name = RecordName(last.pre.data, i)

\* the name_length byte of the record delete_character found at a position
NameLengthAt(data, position) == At(data, position.start)

\* C15 as stated: the size of a record, as computed by list_characters and by
\* delete_character, depends on the record's own name_length (and is never
\* below 89): records with different name lengths are given different sizes,
\* so that the start offset of record i is not 12 + i * constant.
C15_RecordSizeDependsOnNameLength ==
    (last.op = "delete" /\ last.pre.exists) =>
        LET positions == CharPositions(last.pre.data)
        IN  \A a, b \in 1..Len(positions) :
                /\ positions[a].size >= MIN_BYTES_AMOUNT_FOR_CHAR
                /\ NameLengthAt(last.pre.data, positions[a])
                       # NameLengthAt(last.pre.data, positions[b])
                   => positions[a].size # positions[b].size

\* C15 as amended: the size of a record, as computed by list_characters and
\* by delete_character, is 4 + name_length + (85 - name_length) = 89 bytes
\* for every name_length, so record i starts at 12 + 89 * i whatever the name
\* lengths of the records before it: delete_character walks these spans and
\* list_characters reads record i's name and skin byte there.
C15_RecordSizeConstant ==
    (last.op \in {"delete", "list"} /\ last.pre.exists) =>
        LET positions == CharPositions(last.pre.data)
        IN  /\ \A k \in 1..Len(positions) :
                   /\ positions[k].size = MIN_BYTES_AMOUNT_FOR_CHAR
                   /\ positions[k].start = RecordStart(k - 1)
                   /\ positions[k].end = RecordEnd(k - 1)
            /\ \A k \in 1..Len(last.characters) :
                   /\ last.characters[k].name = RecordName(last.pre.data, k - 1)
                   /\ last.characters[k].skin.byte
                          = At(last.pre.data, RecordStart(k - 1) + CHAR_OFFSETS.SKIN)

\* a listing of three records of name lengths 90, 1 and 3
C15_Witness ==
    /\ last.op = "list"
    /\ Len(last.characters) = 3
    /\ At(last.pre.data, RecordStart(0)) = 90
    /\ At(last.pre.data, RecordStart(1)) = 1
    /\ At(last.pre.data, RecordStart(2)) = 3
    /\ last.characters[2].name = <<65>>
    /\ last.characters[3].name = <<66, 111, 98>>

\* some record of the roster has the name
HasRecordNamed(data, name) ==
    \E k \in 0..(RecordsHeld(data) - 1) : RecordName(data, k) = name

\* C16: when both an index and a name are passed to delete_character only the
\* index is used: on success the record at that index is the one removed, also
\* when another record has the name, and when the index is out of range the
\* call fails and leaves the file unchanged, also when a record has the name.
C16_IndexTakesPrecedence ==
    (last.op = "delete" /\ last.index # None /\ last.name # None) =>
        LET pre == last.pre.data
            k == last.index[1]
        IN  /\ last.ret =>
                   /\ 0 <= k /\ k < RecordsHeld(pre)
                   /\ SliceFrom(file.data, HEADER_SIZE)
                          = Slice(pre, HEADER_SIZE, RecordStart(k)) \o SliceFrom(pre, RecordEnd(k))
            /\ (k < 0 \/ k >= RecordsHeld(pre)) => (~last.ret /\ file = last.pre)

\* index 0 and name "Bob" on a roster "A", "Bob", ...: "A" is removed and
\* "Bob" is now the first record
C16_Witness ==
    /\ last.op = "delete"
    /\ last.ret
    /\ last.index = Some(0)
    /\ last.name = Some(<<66, 111, 98>>)
    /\ Len(last.pre.data) = RecordEnd(2)
    /\ RecordName(last.pre.data, 0) = <<65>>
    /\ RecordName(last.pre.data, 1) = <<66, 111, 98>>
    /\ RecordName(file.data, 0) = <<66, 111, 98>>
    /\ Len(file.data) = Len(last.pre.data) - MIN_BYTES_AMOUNT_FOR_CHAR

\* the other half of C16's case: an index beyond the last record with the
\* name of an existing record
C16_OutOfRangeWithName ==
    /\ last.op = "delete"
    /\ last.index = Some(MaxRecords + 1)
    /\ last.name # None
    /\ HasRecordNamed(last.pre.data, last.name[1])
    /\ CountA(last.pre.data) > 1
    /\ ~last.ret

-----------------------------------------------------------------------------
(* The face code claims.                                                   *)

\* mask(c): every scalar masked to 6 bits (0 when absent), morphs 0..41 to 3
\* bits and morph 42 to 1 bit, the morph list zero-padded or truncated to 43
MaskedMorphs(c) ==
    LET given == IF "morphs" \in DOMAIN c THEN c.morphs ELSE <<>>
    IN  [i \in 1..43 |->
            LET value == IF i <= Len(given) THEN given[i] ELSE 0
            IN  IF i = 43 THEN value % 2 ELSE value % 8]

MaskedScalar(c, key) == IF key \in DOMAIN c THEN c[key] % 64 ELSE 0

\* C6: parse_face_code_components(generate_face_code(c)) equals mask(c), for
\* any field values and any morph list length.
C6_ParseOfGenerateIsMask ==
    fc.op = "generate" =>
        LET r == parse_face_code_components(fc.out)
        IN  /\ ~r.raised
            /\ \A k \in 1..Len(SCALAR_KEYS) :
                   r.components[SCALAR_KEYS[k]] = MaskedScalar(fc.components, SCALAR_KEYS[k])
            /\ r.components.morphs = MaskedMorphs(fc.components)

C6_Witness ==
    /\ fc.op = "generate"
    /\ "morphs" \in DOMAIN fc.components
    /\ Len(fc.components.morphs) = 44
    /\ fc.components.morphs[43] = 255
    /\ "hair_color" \in DOMAIN fc.components
    /\ fc.components.hair_color = 100
    /\ parse_face_code_components(fc.out).components.hair_color = 36
    /\ parse_face_code_components(fc.out).components.morphs[43] = 1

IsHex64(code) == Len(code) = 64 /\ \A i \in 1..Len(code) : IsHexDigit(code[i])

\* bits [pos, pos + width) of 16-digit block b (b = 0..3) of a code of 64 hex
\* digits, read as an unsigned integer
RECURSIVE BlockBits(_, _, _, _)
BlockBits(code, b, pos, width) ==
    IF width = 0 THEN 0
    ELSE ((HexValue(code[16 * b + 16 - (pos \div 4)]) \div (2 ^ (pos % 4))) % 2)
             + 2 * BlockBits(code, b, pos + 1, width - 1)

\* C7: parse_face_code_components reads scalar k (hair, beard, skin,
\* hair_texture, hair_color, age, skin_color) as bits [6k, 6k+6) of block 0,
\* morph i <= 20 as bits [3i, 3i+3) of block 1, morph i in 21..41 as bits
\* [3(i-21), 3(i-21)+3) of block 2 and morph 42 as bit 63 of block 2.
C7_ParseBitLayout ==
    (fc.op = "parse" /\ IsHex64(RemovePrefix(fc.code))) =>
        LET code == RemovePrefix(fc.code)
        IN  /\ fc.ok
            /\ \A k \in 0..6 : fc.parsed[SCALAR_KEYS[k + 1]] = BlockBits(code, 0, 6 * k, 6)
            /\ Len(fc.parsed.morphs) = 43
            /\ \A i \in 0..20 : fc.parsed.morphs[i + 1] = BlockBits(code, 1, 3 * i, 3)
            /\ \A i \in 21..41 : fc.parsed.morphs[i + 1] = BlockBits(code, 2, 3 * (i - 21), 3)
            /\ fc.parsed.morphs[43] = BlockBits(code, 2, 63, 1)

C7_Witness ==
    /\ fc.op = "parse"
    /\ fc.code = <<"0", "x">> \o DocCode
    /\ fc.ok
    /\ fc.parsed.age = 6
    /\ fc.parsed.hair = 1
    /\ fc.parsed.morphs[22] = 3

\* C8: validate_face_code(code) is True if and only if, after one optional
\* leading "0x" is removed, the string has exactly 64 characters and each is
\* a hexadecimal digit.
C8_ValidateIffHex64 ==
    fc.op = "validate" => (fc.ok <=> IsHex64(RemovePrefix(fc.code)))

\* C9: parse_face_code_components fails for exactly the inputs
\* validate_face_code rejects: it fails whenever the code, after prefix
\* stripping, is not 64 characters long or contains a non-hex character, and
\* it succeeds for every code validate_face_code accepts.
C9_ParseFailsIffValidateRejects ==
    fc.op = "parse" =>
        /\ ~IsHex64(RemovePrefix(fc.code)) => ~fc.ok
        /\ validate_face_code(fc.code) => fc.ok

\* the scalar and morph values of a parse result
ScalarsAndMorphs(components) ==
    <<[k \in 1..Len(SCALAR_KEYS) |-> components[SCALAR_KEYS[k]]], components.morphs>>

\* other contents of block 3
Block3Variants ==
    {[i \in 1..16 |-> "0"], [i \in 1..16 |-> "f"], [i \in 1..16 |-> HEX_UPPER[17 - i]]}

\* C17: for every components value generate_face_code returns "0x" followed
\* by exactly 64 lowercase hex digits that validate_face_code accepts and
\* whose last 16 digits (block 3) are all zero; and parse_face_code_components
\* returns the same scalar and morph values for codes of 64 hex digits that
\* differ only in block 3.
C17_Block3ZeroAndIgnored ==
    /\ fc.op = "generate" =>
           /\ Len(fc.out) = 66
           /\ fc.out[1] = "0" /\ fc.out[2] = "x"
           /\ \A i \in 3..66 : \E v \in 1..16 : fc.out[i] = HEX_LOWER[v]
           /\ validate_face_code(fc.out)
           /\ \A i \in 51..66 : fc.out[i] = "0"
    /\ (fc.op = "parse" /\ IsHex64(RemovePrefix(fc.code))) =>
           \A tail \in Block3Variants :
               LET other == parse_face_code_components(Slice(RemovePrefix(fc.code), 0, 48) \o tail)
               IN  /\ fc.ok
                   /\ ~other.raised
                   /\ ScalarsAndMorphs(other.components) = ScalarsAndMorphs(fc.parsed)

\* a generated code with letter digits
C17_Witness ==
    /\ fc.op = "generate"
    /\ "skin_color" \in DOMAIN fc.components
    /\ fc.components.skin_color = 63
    /\ \E i \in 3..50 : fc.out[i] \in {"a", "b", "c", "d", "e", "f"}
    /\ \A i \in 51..66 : fc.out[i] = "0"
    /\ validate_face_code(fc.out)

\* a parsed code whose block 3 is not zero
C17_ParsedNonzeroBlock3 ==
    /\ fc.op = "parse"
    /\ fc.ok
    /\ fc.code = [i \in 1..64 |-> "f"]
    /\ fc.parsed.hair = 63
    /\ parse_face_code_components(Slice(fc.code, 0, 48) \o [i \in 1..16 |-> "0"]).components.hair = 63

\* C18: generate_face_code does not modify the components it is given: after
\* the call the dictionary, and the morph list it holds, have the length and
\* the entries they had before, also when the list is shorter than 43 entries.
C18_GenerateLeavesComponents ==
    fc.op = "generate" =>
        /\ fc.after = fc.components
        /\ "morphs" \in DOMAIN fc.components =>
               /\ Len(fc.after.morphs) = Len(fc.components.morphs)
               /\ \A i \in 1..Len(fc.components.morphs) :
                      fc.after.morphs[i] = fc.components.morphs[i]

\* the calls that do leave the caller's list alone: a list of 43 entries or
\* more, or no morphs key at all
C18_LongListUntouched ==
    (/\ fc.op = "generate"
     /\ "morphs" \in DOMAIN fc.components => Len(fc.components.morphs) >= 43)
        => fc.after = fc.components

\* byte k (from 0) of the 32-byte span at record bytes [14, 46) of the
\* character the call was given
SpanByte(k) == fc.data[fc.char_offset + 14 + k + 1]

\* 8-digit chunk j (from 0) of the extracted string
Chunk(j) == Slice(fc.out, 8 * j, 8 * j + 8)

\* a call on the bytes of a whole character record
WholeRecord == Len(fc.data) >= fc.char_offset + MIN_BYTES_AMOUNT_FOR_CHAR

\* the chunks that the extraction takes from span bytes other than byte 3
ChunksOneToSeven ==
    /\ Chunk(1) = Hex02(SpanByte(2)) \o <<"0", "0">> \o Hex02(SpanByte(0)) \o <<"0", "0">>
    /\ Chunk(2) = Hex02(SpanByte(14)) \o Hex02(SpanByte(13))
                      \o Hex02(SpanByte(12)) \o Hex02(SpanByte(11))
    /\ Chunk(3) = Hex02(SpanByte(10)) \o Hex02(SpanByte(9))
                      \o Hex02(SpanByte(8)) \o Hex02(SpanByte(7))
    /\ Chunk(5) = <<"0", "0">> \o Hex02(SpanByte(17)) \o Hex02(SpanByte(16))
                      \o Hex02(SpanByte(15))
    /\ \A j \in {4, 6, 7} : Chunk(j) = [i \in 1..8 |-> "0"]

\* C19: for every character record extract_face_code returns exactly 64
\* lowercase hex characters that validate_face_code accepts: eight 8-digit
\* chunks, chunk 0 being seven zeros and one hex digit from span byte 3, and
\* chunks 1..7 being taken from the span bytes as listed.
C19_ExtractIs64HexInChunks ==
    (fc.op = "extract" /\ WholeRecord) =>
        /\ fc.ok
        /\ Len(fc.out) = 64
        /\ \A i \in 1..Len(fc.out) : \E v \in 1..16 : fc.out[i] = HEX_LOWER[v]
        /\ validate_face_code(fc.out)
        /\ Slice(Chunk(0), 0, 7) = [i \in 1..7 |-> "0"]
        /\ Chunk(0)[8] \in {HEX_LOWER[(SpanByte(3) % 16) + 1],
                            HEX_LOWER[(SpanByte(3) \div 16) + 1]}
        /\ ChunksOneToSeven

\* the records the layout does hold for: span byte 3 below 16
C19_ExtractWhenNibble ==
    (fc.op = "extract" /\ WholeRecord /\ SpanByte(3) < 16) =>
        /\ fc.ok
        /\ Len(fc.out) = 64
        /\ validate_face_code(fc.out)
        /\ Chunk(0) = [i \in 1..7 |-> "0"] \o <<HEX_LOWER[SpanByte(3) + 1]>>
        /\ ChunksOneToSeven

\* span byte 3 from 16 on: a string of 65 characters
C19_ExtractWhenNoNibble ==
    (fc.op = "extract" /\ WholeRecord /\ SpanByte(3) >= 16) =>
        /\ fc.ok
        /\ Len(fc.out) = 65
        /\ ~validate_face_code(fc.out)

\* byte at record offset k of the bytes apply_face_code returned
AppliedByte(k) == fc.bytes[fc.char_offset + k + 1]

\* C20: apply_face_code with a valid face code returns a record of the same
\* length whose hairstyle byte is the decoded hair, whose skin byte is the
\* decoded skin, in which two adjacent bytes hold
\* (hair_color & 0x3F) | ((age & 0x3) << 6) and (age >> 2) & 0xF, and whose
\* other bytes are those of the input.
C20_ApplyWritesDecodedFields ==
    (fc.op = "apply" /\ WholeRecord /\ IsHex64(RemovePrefix(fc.code))) =>
        /\ fc.ok
        /\ Len(fc.bytes) = Len(fc.data)
        /\ LET c == parse_face_code_components(fc.code).components
               written(p) == {CHAR_OFFSETS["HAIRSTYLE"], CHAR_OFFSETS["SKIN"], p, p + 1}
           IN  /\ AppliedByte(CHAR_OFFSETS["HAIRSTYLE"]) = c.hair
               /\ AppliedByte(CHAR_OFFSETS["SKIN"]) = c.skin
               /\ \E p \in 0..(MIN_BYTES_AMOUNT_FOR_CHAR - 2) :
                      /\ AppliedByte(p) = (c.hair_color % 64) + (c.age % 4) * 64
                      /\ AppliedByte(p + 1) = (c.age \div 4) % 16
                      /\ \A i \in 1..Len(fc.data) :
                             (i - fc.char_offset - 1) \notin written(p)
                                 => fc.bytes[i] = fc.data[i]

\* what the call does on a whole record and a code that parses: it ends in
\* the KeyError and returns nothing
C20_ApplyRaisesKeyError ==
    (fc.op = "apply" /\ WholeRecord /\ IsHex64(RemovePrefix(fc.code))) =>
        ~fc.ok /\ fc.error = "KeyError"

\* C26: format_face_code with include_prefix=True is idempotent, and its
\* result is "0x" followed by the lowercased code without its "0x" prefix.
C26_FormatIdempotent ==
    (fc.op = "format" /\ fc.include_prefix) =>
        LET body == IF StartsWith0x(fc.code) THEN SliceFrom(fc.code, 2) ELSE fc.code
        IN  /\ format_face_code(fc.out, TRUE) = fc.out
            /\ Len(fc.out) = 2 + Len(body)
            /\ fc.out[1] = "0" /\ fc.out[2] = "x"
            /\ \A i \in 1..Len(body) :
                   /\ fc.out[2 + i] = LowerChar(body[i])
                   /\ \A v \in 11..16 : fc.out[2 + i] # HEX_UPPER[v]

\* a prefixed code with upper-case digits, formatted with the prefix
C26_Witness ==
    /\ fc.op = "format"
    /\ fc.include_prefix
    /\ StartsWith0x(fc.code)
    /\ Len(fc.code) = 66
    /\ \E i \in 3..66 : fc.code[i] = "A"
    /\ \E i \in 3..66 : fc.out[i] = "a" /\ fc.code[i] = "A"
    /\ Len(fc.out) = 66

\* the template record generate_n_random_characters copies
TemplateRecord == SliceFrom(resources.common_char_file, 12)

\* the header counts equal the number of records list_characters returns
CountsMatchListing ==
    /\ CountA(file.data) = CountB(file.data)
    /\ Len(list_characters(file)) = CountA(file.data)

\* C27: from a well-formed roster, every sequence of delete_character and of
\* generate_n_random_characters with a template record of at least the
\* minimum record size leaves a well-formed roster, whose header counts equal
\* the number of records list_characters returns.
C27_WellFormedPreserved ==
    Len(TemplateRecord) >= MIN_BYTES_AMOUNT_FOR_CHAR =>
        WellFormed(file) /\ CountsMatchListing

\* the same, for a template record of exactly the minimum record size
C27_WellFormedPreservedExactTemplate ==
    Len(TemplateRecord) = MIN_BYTES_AMOUNT_FOR_CHAR =>
        WellFormed(file) /\ CountsMatchListing

\* a successful deletion from a generated roster of two records
C27_Witness ==
    /\ Len(TemplateRecord) = MIN_BYTES_AMOUNT_FOR_CHAR
    /\ last.op = "delete"
    /\ last.ret
    /\ \E seed \in Seeds :
           last.pre = generate_n_random_characters(2, resources.header_file,
                                                   resources.common_char_file, seed)
    /\ CountA(file.data) = 1
    /\ Len(file.data) = HEADER_SIZE + MIN_BYTES_AMOUNT_FOR_CHAR
    /\ Len(list_characters(file)) = 1

\* C30: on a roster for which list_characters returns more than one record,
\* every index it returns is accepted by delete_character, which removes the
\* record listed at that index; also when the two header counts disagree.
C30_ListedIndexIsDeletable ==
    (/\ last.op = "delete"
     /\ last.index # None
     /\ last.name = None
     /\ Len(list_characters(last.pre)) > 1
     /\ 0 <= last.index[1]
     /\ last.index[1] < Len(list_characters(last.pre))) =>
        LET pre == last.pre.data
            k == last.index[1]
        IN  /\ last.ret
            /\ SliceFrom(file.data, HEADER_SIZE)
                   = Slice(pre, HEADER_SIZE, RecordStart(k)) \o SliceFrom(pre, RecordEnd(k))

\* the same on rosters whose two header counts agree and which hold that many
\* whole records
C30_ListedIndexIsDeletableWellFormed ==
    (/\ last.op = "delete"
     /\ last.index # None
     /\ last.name = None
     /\ WellFormed(last.pre)
     /\ Len(list_characters(last.pre)) > 1
     /\ 0 <= last.index[1]
     /\ last.index[1] < Len(list_characters(last.pre))) =>
        LET pre == last.pre.data
            k == last.index[1]
        IN  /\ last.ret
            /\ SliceFrom(file.data, HEADER_SIZE)
                   = Slice(pre, HEADER_SIZE, RecordStart(k)) \o SliceFrom(pre, RecordEnd(k))

-----------------------------------------------------------------------------
(* The session claims. In SpecSession every step is one request, and req'  *)
(* names it.                                                               *)

\* the sessions that a step keeps
Kept == (DOMAIN sessions) \cap (DOMAIN sessions')

\* the step answers a request op on the session sid with the status
Answered(op, sid, status) == req'.op = op /\ req'.sid = sid /\ req'.status = status

\* the number in a backup id that a restore request accepted
BackupNumber(backup_id) == ParseInt10(SecondField(backup_id[1])[1]).value

IsPrefix(a, b) == Len(a) <= Len(b) /\ SubSeq(b, 1, Len(a)) = a

\* restore with no backup chosen puts the last backup of the list in the buffer
RestoreDefaultIsLatest(sid) ==
    (Answered("restore", sid, 200) /\ Falsy(req'.arg)) =>
        sessions'[sid].profiles_data
            = sessions[sid].backups[Len(sessions[sid].backups)]

\* restore leaves the list of backups as it is
RestoreKeepsBackups(sid) ==
    (req'.op = "restore" /\ req'.sid = sid) =>
        sessions'[sid].backups = sessions[sid].backups

\* no request but delete_backup changes a stored backup: the list it leaves
\* starts with the list it found
StoredBackupsStay(sid) ==
    req'.op # "delete_backup" => IsPrefix(sessions[sid].backups, sessions'[sid].backups)

\* C21 as stated: restore with no backup chosen puts the most recently added
\* backup in the buffer, restore of backup i puts the i-th backup taken in the
\* session there, restore leaves the backup list as it is, and no delete,
\* generation, upload or restore changes a stored backup.
C21_RestoreIthTaken ==
    [][\A sid \in Kept :
          /\ RestoreDefaultIsLatest(sid)
          /\ (/\ Answered("restore", sid, 200)
              /\ ~Falsy(req'.arg)
              /\ BackupNumber(req'.arg) \in 1..Len(taken[sid])) =>
                 sessions'[sid].profiles_data = taken[sid][BackupNumber(req'.arg)]
          /\ RestoreKeepsBackups(sid)
          /\ StoredBackupsStay(sid)]_vars

\* C21 amended: restore with no backup chosen puts the most recently added
\* backup in the buffer, restore of backup i puts the i-th backup of the
\* session's list as it is at the request there, restore leaves the backup
\* list as it is, and no delete, generation, upload or restore changes a
\* stored backup.
C21_RestoreIthListed ==
    [][\A sid \in Kept :
          /\ RestoreDefaultIsLatest(sid)
          /\ (/\ Answered("restore", sid, 200)
              /\ ~Falsy(req'.arg)
              /\ BackupNumber(req'.arg) \in 1..Len(sessions[sid].backups)) =>
                 sessions'[sid].profiles_data
                     = sessions[sid].backups[BackupNumber(req'.arg)]
          /\ RestoreKeepsBackups(sid)
          /\ StoredBackupsStay(sid)]_vars

\* "backup_1" was restored from a list of two different backups
C21_Witness ==
    /\ req.op = "restore"
    /\ req.status = 200
    /\ req.arg = Some(BackupWord \o <<"_", "1">>)
    /\ 1 \in DOMAIN sessions
    /\ Len(sessions[1].backups) = 2
    /\ sessions[1].backups[1] # sessions[1].backups[2]
    /\ sessions[1].profiles_data = sessions[1].backups[1]

\* the latest of two different backups was restored by default
C21_DefaultWitness ==
    /\ req.op = "restore"
    /\ req.status = 200
    /\ req.arg = None
    /\ 1 \in DOMAIN sessions
    /\ Len(sessions[1].backups) = 2
    /\ sessions[1].backups[1] # sessions[1].backups[2]
    /\ sessions[1].profiles_data = sessions[1].backups[2]

\* a restore request names a backup outside the list: the number in its
\* backup id is not in 1..len(backups)
NamesBackupOutside(sid) ==
    /\ req'.op = "restore"
    /\ req'.sid = sid
    /\ ~Falsy(req'.arg)
    /\ SecondField(req'.arg[1]) # None
    /\ ParseInt10(SecondField(req'.arg[1])[1]).ok
    /\ BackupNumber(req'.arg) \notin 1..Len(sessions[sid].backups)

\* C22: a restore request that names a backup whose number is not in
\* 1..len(backups), or any restore request on a session with no backups,
\* fails and leaves the live buffer and the backup list unchanged.
C22_RestoreOutsideFails ==
    [][\A sid \in Kept :
          (\/ NamesBackupOutside(sid)
           \/ (/\ req'.op = "restore"
               /\ req'.sid = sid
               /\ Len(sessions[sid].backups) = 0)) =>
              /\ req'.status # 200
              /\ sessions'[sid].profiles_data = sessions[sid].profiles_data
              /\ sessions'[sid].backups = sessions[sid].backups]_vars

\* the part of C22 that holds: a restore on a session with no backups, and a
\* restore naming a number above len(backups), fail and change nothing
C22_RestoreAboveFails ==
    [][\A sid \in Kept :
          (\/ (NamesBackupOutside(sid) /\ BackupNumber(req'.arg) > 0)
           \/ (/\ req'.op = "restore"
               /\ req'.sid = sid
               /\ Len(sessions[sid].backups) = 0)) =>
              /\ req'.status = 404
              /\ sessions'[sid].profiles_data = sessions[sid].profiles_data
              /\ sessions'[sid].backups = sessions[sid].backups]_vars

\* "backup_0" was restored: the buffer holds the last backup, which it did
\* not hold before
C22_BackupZeroRestored ==
    /\ req.op = "restore"
    /\ req.status = 200
    /\ req.arg = Some(BackupWord \o <<"_", "0">>)

\* a step leaves the live buffer and the backup list of the session as they are
SessionUnchanged(sid) ==
    /\ sessions'[sid].profiles_data = sessions[sid].profiles_data
    /\ sessions'[sid].backups = sessions[sid].backups

\* the request of the step is an upload of a file that validate_profiles_format
\* refuses
MalformedUpload(sid) ==
    /\ req'.op = "upload"
    /\ req'.sid = sid
    /\ ~validate_profiles_format(req'.arg[1])

\* the request of the step carries a face code that validate_face_code refuses
MalformedFaceCode(sid) ==
    /\ req'.op = "apply"
    /\ req'.sid = sid
    /\ req'.arg # None
    /\ ~validate_face_code(req'.arg[1])

\* C25: an upload of a malformed roster (shorter than the header, or with an
\* implausible record count) and a request carrying a malformed face code are
\* rejected, and leave the live buffer and the backup list of the session
\* exactly as they were.
C25_MalformedRejectedUnchanged ==
    [][\A sid \in Kept :
          (MalformedUpload(sid) \/ MalformedFaceCode(sid)) =>
              /\ req'.status # 200
              /\ SessionUnchanged(sid)]_vars

\* the upload half of C25: a malformed upload is answered 400 and changes
\* nothing
C25_MalformedUploadRejected ==
    [][\A sid \in Kept :
          MalformedUpload(sid) => (req'.status = 400 /\ SessionUnchanged(sid))]_vars

\* a request with a malformed face code was answered 501 after a backup was
\* added
C25_MalformedFaceCodeBackedUp ==
    /\ req.op = "apply"
    /\ req.status = 501
    /\ req.arg = Some([DocCode EXCEPT ![1] = "g"])
    /\ 1 \in DOMAIN sessions
    /\ Len(sessions[1].backups) = 1

\* the step is a delete-character or generate-characters request on the
\* session that was carried out: it was answered 200, or it replaced the live
\* buffer (a generate request is answered 500 once the characters are
\* generated, when the response cannot be built)
CarriedOut(sid) ==
    /\ req'.op \in {"delete", "generate"}
    /\ req'.sid = sid
    /\ \/ req'.status = 200
       \/ sessions'[sid].profiles_data # sessions[sid].profiles_data

\* C28: a delete-character or generate-characters request that is carried out
\* appends a backup of the buffer it found before it changes the buffer, so
\* that a restore of the latest backup right after it makes the live buffer
\* what it was just before the request.
C28_RestoreUndoesDeleteAndGenerate ==
    [][\A sid \in Kept :
          CarriedOut(sid) =>
              /\ sessions'[sid].backups
                     = Append(sessions[sid].backups, sessions[sid].profiles_data)
              /\ \A restored \in {files_restore_from_backup(sessions', sid, None, now)} :
                     /\ restored.status = 200
                     /\ restored.sessions[sid].profiles_data
                            = sessions[sid].profiles_data]_vars

\* a delete request succeeded on a session that held a backup other than the
\* buffer it found, and removed a record from the buffer
C28_Witness ==
    /\ req.op = "delete"
    /\ req.status = 200
    /\ 1 \in DOMAIN sessions
    /\ Len(sessions[1].backups) = 2
    /\ sessions[1].backups[1] # sessions[1].backups[2]
    /\ Len(sessions[1].profiles_data) + MIN_BYTES_AMOUNT_FOR_CHAR
           = Len(sessions[1].backups[2])

\* a generate request replaced the buffer of a session that held a backup
\* other than the buffer it found
C28_GenerateWitness ==
    /\ req.op = "generate"
    /\ 1 \in DOMAIN sessions
    /\ Len(sessions[1].backups) = 2
    /\ sessions[1].backups[1] # sessions[1].backups[2]
    /\ sessions[1].profiles_data # sessions[1].backups[2]

\* every generate request on a session is answered 500 although the characters
\* were generated: the response cannot be built from what list_characters
\* returns
GenerateAnswers500 ==
    (req.op = "generate" /\ req.sid \in DOMAIN sessions) => req.status = 500

\* C29: a character request that does not succeed (a delete with an index out
\* of range, a delete of the only remaining character, a character update, an
\* apply-face-code) modifies neither the live buffer nor the backup list.
C29_FailedCharacterRequestUnchanged ==
    [][\A sid \in Kept :
          (/\ req'.op \in {"delete", "update", "apply"}
           /\ req'.sid = sid
           /\ req'.status # 200) =>
              SessionUnchanged(sid)]_vars

\* the part of C29 that holds: a character request answered 404 (index out of
\* range) or an apply-face-code answered 400 (no face code) changes nothing
C29_OutOfRangeUnchanged ==
    [][\A sid \in Kept :
          (/\ req'.op \in {"delete", "update", "apply"}
           /\ req'.sid = sid
           /\ (req'.status = 404 \/ (req'.op = "apply" /\ req'.status = 400))) =>
              SessionUnchanged(sid)]_vars

\* the delete of the only remaining character was refused after a backup was
\* added
C29_LastCharacterBackedUp ==
    /\ req.op = "delete"
    /\ req.status = 400
    /\ 1 \in DOMAIN sessions
    /\ Len(sessions[1].backups) = 1
    /\ sessions[1].backups[1] = sessions[1].profiles_data

-----------------------------------------------------------------------------
(* The claims on requests served at the same time (SpecUpload).            *)

\* the sessions with an upload waiting for its file's content
Uploading == {upload.sid : upload \in BagToSet(inflight)}

\* the number of uploads of a session that wait for their content
WaitingUploads(sid) ==
    BagCardinality([upload \in {u \in BagToSet(inflight) : u.sid = sid} |->
                        CopiesIn(upload, inflight)])

\* at most one upload of a session waits for its content
OneUploadPerSession ==
    \A sid \in Uploading : WaitingUploads(sid) <= 1

\* while an upload of a session waits, no other request on the session is
\* answered: the last request answered is the upload that began to wait
NoRequestDuringUpload ==
    req.sid \in Uploading => (req.op = "upload" /\ req.status = 0)

\* no upload completes on a session that was removed while it waited, writing
\* the roster file under the temporary directory the removal released
NoUploadOnRemovedSession ==
    ~(req.op = "upload" /\ req.status = 200 /\ req.sid \notin DOMAIN sessions)

\* C23: the requests on one session are serialized: at most one operation of
\* a session is in flight at any time, and no request works on a temporary
\* roster file that another request in flight wrote or removed.
C23_OneRequestInFlightPerSession ==
    /\ OneUploadPerSession
    /\ NoRequestDuringUpload
    /\ NoUploadOnRemovedSession

\* two uploads of session 1 wait for their content at once
C23_TwoUploadsInFlight ==
    \E sid \in Uploading : WaitingUploads(sid) = 2

\* two uploads of the same content to the same session wait at once
C23_SameUploadTwice ==
    \E upload \in BagToSet(inflight) : CopiesIn(upload, inflight) = 2

\* an upload succeeded on a session that was deleted while it waited
C23_UploadOnRemovedSession ==
    req.op = "upload" /\ req.status = 200 /\ req.sid \notin DOMAIN sessions

\* the live buffer and the backups of a session with an upload in flight are
\* those the requests answered so far left: an upload changes nothing before
\* its content is read
C23_WaitingUploadChangesNothing ==
    [][(req'.op = "upload" /\ req'.status = 0) =>
          \A sid \in Kept :
              /\ sessions'[sid].profiles_data = sessions[sid].profiles_data
              /\ sessions'[sid].backups = sessions[sid].backups]_vars

-----------------------------------------------------------------------------
(* The claims on the lifetime of sessions (SpecExpiry).                    *)

\* the step is a run of the cleanup task
SweepStep == sweep_at' # sweep_at

\* the step is a request: neither the clock nor the cleanup task
RequestStep == now' = now /\ sweep_at' = sweep_at

\* C24: the sweep removes exactly the sessions whose last access is more than
\* SESSION_TIMEOUT in the past and leaves the others as they are; creating a
\* session and fetching it with get_session set its last access to the time
\* of the request, so that a session created or fetched within the timeout is
\* not evicted; and a lookup, a backup listing or a deletion on an id whose
\* session was evicted answers not found.
C24_SweepEvictsIdleSessions ==
    [][/\ SweepStep =>
              /\ DOMAIN sessions'
                     = {sid \in DOMAIN sessions :
                            now - sessions[sid].last_accessed <= SESSION_TIMEOUT}
              /\ \A sid \in Kept : sessions'[sid] = sessions[sid]
       /\ (/\ RequestStep
           /\ req'.op \in {"create_session", "get_session"}
           /\ req'.status = 200) =>
              sessions'[req'.sid].last_accessed = now
       /\ (/\ RequestStep
           /\ req'.op \in {"get_session", "list_backups", "delete_session"}
           /\ req'.sid \notin DOMAIN sessions) =>
              (req'.status = 404 /\ sessions' = sessions)]_vars

\* a sweep evicted one session of two and kept the one last accessed exactly
\* SESSION_TIMEOUT ago
C24_Witness ==
    /\ req.op = "cleanup"
    /\ req.status = 1
    /\ Len(taken) = 2
    /\ \E sid \in DOMAIN sessions : now - sessions[sid].last_accessed = SESSION_TIMEOUT

\* after shutdown_event no session is left, whatever their last access
ShutdownDeletesEverySession ==
    req.op = "shutdown" => sessions = NoSessions

\* the application shut down while it held two sessions
ShutdownOfTwoSessions ==
    req.op = "shutdown" /\ Len(taken) = 2 /\ now = 0

\* a lookup on an evicted session answered not found
C24_EvictedNotFound ==
    /\ req.op = "get_session"
    /\ req.status = 404
    /\ sessions = NoSessions
    /\ Len(taken) = 1
    /\ now > SESSION_TIMEOUT

====
